---- MODULE Spec2Model ----
(***************************************************************************)
(* Bytecode compiler (abra_core/src/vm/compiler.rs) and stack VM           *)
(* (abra_core/src/vm/vm.rs) of abra-lang.  A typed AST is compiled to a    *)
(* CompiledModule (named chunks, constants, bindings); VM::run then        *)
(* executes one instruction per step.                                      *)
(***************************************************************************)
EXTENDS Integers, Sequences, FiniteSets, TLC

(***************************************************************************)
(* Opcodes: the byte of an opcode is its position in the enum.             *)
(***************************************************************************)
OpcodeNames ==
  << "Constant", "Nil", "IConst0", "IConst1", "IConst2", "IConst3", "IConst4",
     "IAdd", "ISub", "IMul", "IDiv", "FAdd", "FSub", "FMul", "FDiv", "IMod",
     "FMod", "I2F", "F2I", "Invert", "StrConcat", "T", "F", "And", "Or",
     "Negate", "Coalesce", "LT", "LTE", "GT", "GTE", "Eq", "Neq", "OptMk",
     "MapMk", "MapLoad", "ArrMk", "ArrLoad", "ArrSlc", "GStore", "LStore0",
     "LStore1", "LStore2", "LStore3", "LStore4", "LStore", "UStore0",
     "UStore1", "UStore2", "UStore3", "UStore4", "UStore", "GLoad", "LLoad0",
     "LLoad1", "LLoad2", "LLoad3", "LLoad4", "LLoad", "ULoad0", "ULoad1",
     "ULoad2", "ULoad3", "ULoad4", "ULoad", "Jump", "JumpIfF", "JumpB",
     "Invoke", "ClosureMk", "CloseUpvalue", "CloseUpvalueAndPop", "Pop",
     "PopN", "Return" >>

\* `opcode as u8`
Op(name) == (CHOOSE i \in 1..Len(OpcodeNames) : OpcodeNames[i] = name) - 1

\* Opcode::from(byte); bytes above Return hit unreachable!()
OpcodeFrom(byte) ==
  IF byte + 1 \in DOMAIN OpcodeNames THEN OpcodeNames[byte + 1] ELSE "unreachable"

\* Opcode::num_expected_imms, the instruction table
num_expected_imms(name) ==
  IF name \in {"Constant", "Jump", "JumpIfF", "JumpB", "ArrMk", "MapMk",
               "LStore", "UStore", "PopN", "LLoad", "ULoad"} THEN 1
  ELSE IF name = "Invoke" THEN 2
  ELSE 0

(***************************************************************************)
(* Values.  Each variant has its own payload field.                        *)
(***************************************************************************)
IntV(i)   == [t |-> "Int", i |-> i]
BoolV(b)  == [t |-> "Bool", b |-> b]
NilV      == [t |-> "Nil"]
StringObj(s) == [t |-> "StringObj", s |-> s]
FnV(name) == [t |-> "Fn", n |-> name]
ArrayObj(items) == [t |-> "ArrayObj", a |-> items]
OptionObj(opt)  == [t |-> "OptionObj", o |-> opt]   \* opt: <<>> or <<v>>

\* f64 as the fraction n / d in lowest terms with d > 0; d = 0 stands for
\* infinity (n = 1), -infinity (n = -1) and NaN (n = 0)
RECURSIVE Gcd(_, _)
Gcd(a, b) == IF b = 0 THEN a ELSE Gcd(b, a % b)
Abs(x) == IF x < 0 THEN -x ELSE x
Sign(x) == IF x < 0 THEN -1 ELSE IF x > 0 THEN 1 ELSE 0
FloatV(n, d) ==
  IF d = 0 THEN [t |-> "Float", n |-> Sign(n), d |-> 0]
  ELSE LET g == Gcd(Abs(n), Abs(d))
       IN [t |-> "Float", n |-> (Sign(d) * n) \div g, d |-> Abs(d) \div g]

(***************************************************************************)
(* Typed AST nodes (the compiler's input).  `line` is the line of the      *)
(* node's token; an optional child is <<>> or <<child>>.                   *)
(***************************************************************************)
IntLiteral(v, line)    == [k |-> "Literal", lit |-> "Int", v |-> v, hi |-> 0, typ |-> "Int", line |-> line]
\* an Int literal hi * 2^32 + lo that does not fit 32 bits
BigIntLiteral(hi, lo, line) == [k |-> "Literal", lit |-> "Int", v |-> lo, hi |-> hi, typ |-> "Int", line |-> line]
BoolLiteral(b, line)   == [k |-> "Literal", lit |-> "Bool", v |-> b, typ |-> "Bool", line |-> line]
FloatLiteral(n, d, line) == [k |-> "Literal", lit |-> "Float", v |-> FloatV(n, d), typ |-> "Float", line |-> line]
StringLiteral(s, line) == [k |-> "Literal", lit |-> "String", v |-> s, typ |-> "String", line |-> line]
Unary(op, expr, line)  == [k |-> "Unary", op |-> op, expr |-> expr, typ |-> expr.typ, line |-> line]
Binary(op, typ, left, right, line) ==
  [k |-> "Binary", op |-> op, typ |-> typ, left |-> left, right |-> right, line |-> line]
Grouped(expr, line)    == [k |-> "Grouped", expr |-> expr, typ |-> expr.typ, line |-> line]
Array(items, line)     == [k |-> "Array", items |-> items, typ |-> "Array", line |-> line]
BindingDecl(name, expr, scope_depth, line) ==
  [k |-> "BindingDecl", ident |-> name, expr |-> expr, scope_depth |-> scope_depth,
   typ |-> "Unit", line |-> line]
FunctionDecl(name, args, body, scope_depth, line) ==
  [k |-> "FunctionDecl", name |-> name, args |-> args, body |-> body,
   scope_depth |-> scope_depth, typ |-> "Unit", line |-> line]
Identifier(name, typ, line) == [k |-> "Identifier", name |-> name, typ |-> typ, line |-> line]
Assignment(name, expr, line) ==
  [k |-> "Assignment", target |-> name, expr |-> expr, typ |-> expr.typ, line |-> line]
IndexingIndex(target, idx, typ, line) ==
  [k |-> "Indexing", target |-> target, mode |-> "Index", idx |-> idx, typ |-> typ, line |-> line]
IndexingRange(target, start, end, line) ==
  [k |-> "Indexing", target |-> target, mode |-> "Range", start |-> start, end |-> end,
   typ |-> target.typ, line |-> line]
IfStatement(condition, if_block, else_block, line) ==
  [k |-> "IfStatement", condition |-> condition, if_block |-> if_block,
   else_block |-> else_block, typ |-> "Unit", line |-> line]
IfExpression(condition, if_block, else_block, typ, line) ==
  [k |-> "IfExpression", condition |-> condition, if_block |-> if_block,
   else_block |-> else_block, typ |-> typ, line |-> line]
Invocation(name, args, typ, line) ==
  [k |-> "Invocation", target |-> name, args |-> args, typ |-> typ, line |-> line]

(***************************************************************************)
(* Chunk and CompiledModule.  `isop` runs parallel to `code` and records   *)
(* whether the byte was written by write_opcode (an opcode) or by          *)
(* write_byte (an immediate).                                              *)
(***************************************************************************)
MAIN_CHUNK_NAME == "main"

\* written is history: the line each byte was written with, in code order
ChunkNew ==
  [code |-> <<>>, isop |-> <<>>, lines |-> <<>>, num_bindings |-> 0, written |-> <<>>]

\* Chunk::write(byte, line): append the byte, count it on its line
ChunkWrite(chunk, byte, isop, line) ==
  LET padded == IF Len(chunk.lines) < line
                THEN chunk.lines \o [i \in 1..(line - Len(chunk.lines)) |-> 0]
                ELSE chunk.lines
  IN [chunk EXCEPT !.code = Append(@, byte),
                   !.isop = Append(@, isop),
                   !.lines = IF line >= 1 THEN [padded EXCEPT ![line] = @ + 1] ELSE @,
                   !.written = Append(@, line)]

\* CompiledModule::new plus the main chunk, and the Compiler around it.
\* History, not read by the compiler: ifs (the byte positions of each if
\* construct), fns (per compiled function declaration, the binding vector
\* before and after it), appended (per chunk
\* name, the descriptors pushed while current_chunk was that name).
CompilerNew ==
  [chunks |-> (MAIN_CHUNK_NAME :> ChunkNew), constants |-> <<>>, bindings |-> <<>>,
   current_chunk |-> MAIN_CHUNK_NAME, depth |-> 0, ok |-> TRUE, ifs |-> <<>>,
   fns |-> <<>>, appended |-> (MAIN_CHUNK_NAME :> 0)]

\* CompiledModule::add_chunk
AddChunk(cs, name, chunk) ==
  [cs EXCEPT !.chunks = (name :> chunk) @@ cs.chunks]

\* CompiledModule::add_constant: the index of the value, appended when new
AddConstant(cs, value) ==
  IF \E i \in DOMAIN cs.constants : cs.constants[i] = value
  THEN [cs |-> cs, idx |-> (CHOOSE i \in DOMAIN cs.constants : cs.constants[i] = value) - 1]
  ELSE [cs |-> [cs EXCEPT !.constants = Append(@, value)], idx |-> Len(cs.constants)]

write_byte(cs, byte, line) ==
  [cs EXCEPT !.chunks[cs.current_chunk] = ChunkWrite(@, byte, FALSE, line)]

write_opcode(cs, opname, line) ==
  [cs EXCEPT !.chunks[cs.current_chunk] = ChunkWrite(@, Op(opname), TRUE, line)]

write_constant(cs, value, line) ==
  LET r == AddConstant(cs, value)
  IN write_byte(write_opcode(r.cs, "Constant", line), r.idx, line)

write_int_constant(cs, number, line) ==
  IF number <= 4
  THEN write_opcode(cs, OpcodeNames[Op("IConst0") + number + 1], line)
  ELSE write_constant(cs, IntV(number), line)

write_store_instr(cs, binding_idx, line) ==
  IF binding_idx <= 4
  THEN write_opcode(cs, OpcodeNames[Op("LStore0") + binding_idx + 1], line)
  ELSE write_opcode(write_int_constant(cs, binding_idx, line), "LStore", line)

write_load_instr(cs, binding_idx, line) ==
  IF binding_idx <= 4
  THEN write_opcode(cs, OpcodeNames[Op("LLoad0") + binding_idx + 1], line)
  ELSE write_opcode(write_int_constant(cs, binding_idx, line), "LLoad", line)

\* a scan from the start: the least index whose descriptor has the name
ScanFromStart(bindings, binding_name, binding_idx) ==
  IF \E i \in 1..Len(bindings) : bindings[i].name = binding_name
  THEN (CHOOSE i \in 1..Len(bindings) :
          /\ bindings[i].name = binding_name
          /\ \A j \in 1..(i - 1) : bindings[j].name # binding_name) - 1
  ELSE 0

\* the scan of get_binding_index, from binding_idx (0-based) toward 0;
\* index 0 is returned without its name being compared
RECURSIVE ScanBindings(_, _, _)
ScanBindings(bindings, binding_name, binding_idx) ==
  IF binding_idx > 0 /\ bindings[binding_idx + 1].name # binding_name
  THEN ScanBindings(bindings, binding_name, binding_idx - 1)
  ELSE binding_idx

get_binding_index(cs, binding_name) ==
  ScanBindings(cs.bindings, binding_name, Len(cs.bindings) - 1)

\* a Pop after every node, whatever its kind
pop_after_every_node(node) == TRUE

should_pop_after_node(node) ==
  node.k \notin {"BindingDecl", "FunctionDecl", "IfStatement"}

(***************************************************************************)
(* The visitor.  Visit dispatches on the node kind; a failed cs (ok =      *)
(* FALSE: unreachable!() or an arithmetic underflow of the compiler) is    *)
(* passed through unchanged.                                               *)
(***************************************************************************)
\* `val as u32` of an i64 literal keeps the low 32 bits
AsU32(node) == node.v

BinaryOpcode(op, typ) ==
  CASE op = "Add" /\ typ = "String" -> "StrConcat"
    [] op = "And" /\ typ = "Bool" -> "And"
    [] op = "Or"  /\ typ = "Bool" -> "Or"
    [] op = "Lt"  /\ typ = "Bool" -> "LT"
    [] op = "Lte" /\ typ = "Bool" -> "LTE"
    [] op = "Gt"  /\ typ = "Bool" -> "GT"
    [] op = "Gte" /\ typ = "Bool" -> "GTE"
    [] op = "Eq"  -> "Eq"
    [] op = "Neq" -> "Neq"
    [] op = "Coalesce" -> "Coalesce"
    [] op = "Add" /\ typ = "Int"   -> "IAdd"
    [] op = "Add" /\ typ = "Float" -> "FAdd"
    [] op = "Sub" /\ typ = "Int"   -> "ISub"
    [] op = "Sub" /\ typ = "Float" -> "FSub"
    [] op = "Mul" /\ typ = "Int"   -> "IMul"
    [] op = "Mul" /\ typ = "Float" -> "FMul"
    [] op = "Div" /\ typ = "Int"   -> "IDiv"
    [] op = "Div" /\ typ = "Float" -> "FDiv"
    [] OTHER -> "unreachable"

\* no conversion after any operand
no_coercion(cs, node_type, operand_type, line) == cs

\* the I2F / F2I written after an operand of a binary node
write_coercion(cs, node_type, operand_type, line) ==
  IF node_type = "Int" /\ operand_type = "Float" THEN write_opcode(cs, "F2I", line)
  ELSE IF node_type = "Float" /\ operand_type = "Int" THEN write_opcode(cs, "I2F", line)
  ELSE cs

\* the byte count patched into the placeholder at jump_offset_slot_idx - 1
\* (`block_len as u8`)
PatchJump(cs, jump_offset_slot_idx) ==
  LET chunk == cs.chunks[cs.current_chunk]
      block_len == Len(chunk.code) - jump_offset_slot_idx
  IN [cs EXCEPT !.chunks[cs.current_chunk].code[jump_offset_slot_idx] = block_len % 256]

RECURSIVE Visit(_, _)
RECURSIVE VisitItems(_, _, _)
RECURSIVE VisitBlock(_, _, _, _)
RECURSIVE StoreArgs(_, _, _, _)

\* the Pop written after a node whose value nothing uses
PopAfter(cs, should_pop, line) == IF should_pop THEN write_opcode(cs, "Pop", line) ELSE cs

\* visit each node of a list in order, nothing written between them
VisitItems(cs, nodes, i) ==
  IF i > Len(nodes) THEN cs ELSE VisitItems(Visit(cs, nodes[i]), nodes, i + 1)

\* the per-node loop over an if- or else-block, with its Pop rule
VisitBlock(cs, block, i, is_stmt) ==
  IF i > Len(block) THEN cs
  ELSE VisitBlock(PopAfter(Visit(cs, block[i]),
                           (is_stmt /\ should_pop_after_node(block[i]))
                             \/ (i # Len(block) /\ should_pop_after_node(block[i])),
                           block[i].line),
                  block, i + 1, is_stmt)

\* the parameter loop with the slot taken after the binding is appended
StoreArgsIndexAfterAppend(cs, args, i, scope_depth) ==
  IF i > Len(args) THEN cs
  ELSE LET c1 == [cs EXCEPT !.bindings = Append(@, [name |-> args[i].name,
                                                    scope_depth |-> scope_depth + 1]),
                            !.chunks[cs.current_chunk].num_bindings = @ + 1,
                            !.appended[cs.current_chunk] = @ + 1]
       IN StoreArgs(write_store_instr(c1, Len(c1.bindings), args[i].line), args, i + 1, scope_depth)

\* the parameter loop of visit_function_decl: a binding and a store per parameter
StoreArgs(cs, args, i, scope_depth) ==
  IF i > Len(args) THEN cs
  ELSE LET binding_idx == Len(cs.bindings)
           c1 == [cs EXCEPT !.bindings = Append(@, [name |-> args[i].name,
                                                    scope_depth |-> scope_depth + 1]),
                            !.chunks[cs.current_chunk].num_bindings = @ + 1,
                            !.appended[cs.current_chunk] = @ + 1]
       IN StoreArgs(write_store_instr(c1, binding_idx, args[i].line), args, i + 1, scope_depth)

visit_literal(cs, node) ==
  IF node.lit = "Bool" THEN write_opcode(cs, IF node.v THEN "T" ELSE "F", node.line)
  ELSE IF node.lit = "Int" THEN write_int_constant(cs, AsU32(node), node.line)
  ELSE LET r == AddConstant(cs, IF node.lit = "Float" THEN node.v ELSE StringObj(node.v))
       IN write_byte(write_opcode(r.cs, "Constant", node.line), r.idx, node.line)

visit_unary(cs, node) ==
  write_opcode(Visit(cs, node.expr), IF node.op = "Minus" THEN "Invert" ELSE "Negate", node.line)

\* the logical operators compiled with the right operand guarded by a jump
visit_binary_short_circuit(cs, node) ==
  LET opcode == BinaryOpcode(node.op, node.typ)
      c1 == Visit(cs, node.left)
      c2 == write_coercion(c1, node.typ, node.left.typ, node.left.line)
      c3 == IF node.op \in {"And", "Or"}
            THEN write_byte(write_opcode(c2, "JumpIfF", node.line), 0, node.line)
            ELSE c2
      c4 == Visit(c3, node.right)
      c5 == write_coercion(c4, node.typ, node.right.typ, node.right.line)
  IN IF opcode = "unreachable" THEN [cs EXCEPT !.ok = FALSE]
     ELSE write_opcode(c5, opcode, node.line)

visit_binary(cs, node) ==
  LET opcode == BinaryOpcode(node.op, node.typ)
      c1 == Visit(cs, node.left)
      c2 == write_coercion(c1, node.typ, node.left.typ, node.left.line)
      c3 == Visit(c2, node.right)
      c4 == write_coercion(c3, node.typ, node.right.typ, node.right.line)
  IN IF opcode = "unreachable" THEN [cs EXCEPT !.ok = FALSE]
     ELSE write_opcode(c4, opcode, node.line)

visit_grouped(cs, node) == Visit(cs, node.expr)

visit_array(cs, node) ==
  LET c1 == VisitItems(cs, node.items, 1)
  IN write_opcode(write_int_constant(c1, Len(node.items), node.line), "ArrMk", node.line)

visit_binding_decl(cs, node) ==
  LET binding_idx == Len(cs.bindings)
      c1 == [cs EXCEPT !.bindings = Append(@, [name |-> node.ident,
                                               scope_depth |-> node.scope_depth]),
                       !.chunks[cs.current_chunk].num_bindings = @ + 1,
                       !.appended[cs.current_chunk] = @ + 1]
  IN IF node.expr # <<>>
     THEN write_store_instr(Visit(c1, node.expr[1]), binding_idx, node.line)
     ELSE c1

visit_function_decl(cs, node) ==
  LET r  == AddConstant(cs, FnV(node.name))
      c1 == write_byte(write_opcode(r.cs, "Constant", node.line), r.idx, node.line)
      c2 == [AddChunk(c1, node.name, ChunkNew) EXCEPT
               !.current_chunk = node.name,
               !.appended = @ @@ (node.name :> 0)]
      c3 == StoreArgs(c2, node.args, 1, node.scope_depth)
      c4 == VisitItems(c3, node.body, 1)
      last_line == IF node.body = <<>> THEN 0 ELSE node.body[Len(node.body)].line
      c5 == write_opcode(c4, "Return", last_line)
      c6 == [c5 EXCEPT !.current_chunk = cs.current_chunk]
      num_bindings == c6.chunks[node.name].num_bindings
      kept == IF num_bindings >= Len(c6.bindings) THEN 0 ELSE Len(c6.bindings) - num_bindings
      c7 == [c6 EXCEPT !.bindings = SubSeq(@, 1, kept)]
      binding_idx == Len(c7.bindings)
      c8 == [c7 EXCEPT !.bindings = Append(@, [name |-> node.name,
                                               scope_depth |-> node.scope_depth]),
                       !.chunks[c7.current_chunk].num_bindings = @ + 1,
                       !.appended[c7.current_chunk] = @ + 1,
                       !.fns = Append(@, [name |-> node.name,
                                          scope_depth |-> node.scope_depth,
                                          before |-> cs.bindings,
                                          after |-> Append(c7.bindings,
                                                           [name |-> node.name,
                                                            scope_depth |-> node.scope_depth])])]
  IN write_store_instr(c8, binding_idx, node.line)

visit_identifier(cs, node) ==
  IF cs.bindings = <<>> THEN [cs EXCEPT !.ok = FALSE]
  ELSE write_load_instr(cs, get_binding_index(cs, node.name), node.line)

visit_assignment(cs, node) ==
  LET c1 == Visit(cs, node.expr)
      binding_idx == get_binding_index(c1, node.target)
  IN IF c1.bindings = <<>> THEN [c1 EXCEPT !.ok = FALSE]
     ELSE write_load_instr(write_store_instr(c1, binding_idx, node.line), binding_idx, node.line)

visit_indexing(cs, node) ==
  LET c1 == Visit(cs, node.target)
  IN IF node.mode = "Index"
     THEN write_opcode(Visit(c1, node.idx), "ArrLoad", node.line)
     ELSE LET c2 == IF node.start # <<>> THEN Visit(c1, node.start[1])
                    ELSE write_int_constant(c1, 0, node.line)
              c3 == IF node.end # <<>> THEN Visit(c2, node.end[1])
                    ELSE write_opcode(c2, "Nil", node.line)
          IN write_opcode(c3, "ArrSlc", node.line)

\* Besides the code, each compiled if construct is noted in `ifs` with its
\* byte positions (0-based, as ip counts them): start of the condition, first
\* byte of the then-block, first byte of the else-block (= end when there is
\* no else) and first byte after the construct.
visit_if_statement(cs, is_stmt, node) ==
  LET start == Len(cs.chunks[cs.current_chunk].code)
      c1 == write_byte(write_opcode(Visit(cs, node.condition), "JumpIfF", node.line), 0, node.line)
      if_slot == Len(c1.chunks[c1.current_chunk].code)
      c2 == VisitBlock(c1, node.if_block, 1, is_stmt)
      c3 == IF node.else_block # <<>>
            THEN write_byte(write_opcode(c2, "Jump", node.line), 0, node.line)
            ELSE c2
      c4 == PatchJump(c3, if_slot)
      else_slot == Len(c4.chunks[c4.current_chunk].code)
      c5 == IF node.else_block # <<>>
            THEN PatchJump(VisitBlock(c4, node.else_block[1], 1, is_stmt), else_slot)
            ELSE c4
  IN [c5 EXCEPT !.ifs = Append(@, [chunk |-> cs.current_chunk, is_stmt |-> is_stmt,
                                   has_else |-> node.else_block # <<>>,
                                   start |-> start, then_start |-> if_slot,
                                   else_start |-> else_slot,
                                   end |-> Len(c5.chunks[c5.current_chunk].code),
                                   before |-> cs.bindings, after |-> c5.bindings])]

visit_if_expression(cs, node) == visit_if_statement(cs, FALSE, node)

visit_invocation(cs, node) ==
  LET c1 == VisitItems(cs, node.args, 1)
  IN write_opcode(write_constant(c1, StringObj(node.target), node.line), "Invoke", node.line)

Visit(cs, node) ==
  IF ~cs.ok THEN cs
  ELSE CASE node.k = "Literal"      -> visit_literal(cs, node)
         [] node.k = "Unary"        -> visit_unary(cs, node)
         [] node.k = "Binary"       -> visit_binary(cs, node)
         [] node.k = "Grouped"      -> visit_grouped(cs, node)
         [] node.k = "Array"        -> visit_array(cs, node)
         [] node.k = "BindingDecl"  -> visit_binding_decl(cs, node)
         [] node.k = "FunctionDecl" -> visit_function_decl(cs, node)
         [] node.k = "Identifier"   -> visit_identifier(cs, node)
         [] node.k = "Assignment"   -> visit_assignment(cs, node)
         [] node.k = "Indexing"     -> visit_indexing(cs, node)
         [] node.k = "IfStatement"  -> visit_if_statement(cs, TRUE, node)
         [] node.k = "IfExpression" -> visit_if_expression(cs, node)
         [] node.k = "Invocation"   -> visit_invocation(cs, node)

\* the loop of compile over the top-level nodes
RECURSIVE CompileNodes(_, _, _)
CompileNodes(cs, ast, i) ==
  IF i > Len(ast) THEN cs
  ELSE CompileNodes(PopAfter(Visit(cs, ast[i]),
                             i # Len(ast) /\ should_pop_after_node(ast[i]), ast[i].line),
                    ast, i + 1)

\* the tail of compile: Return on the line after the last node's, written to
\* the main chunk; ok = FALSE when the compiler aborted
WriteReturn(cs, last_line) ==
  IF ~cs.ok \/ MAIN_CHUNK_NAME \notin DOMAIN cs.chunks THEN [cs EXCEPT !.ok = FALSE]
  ELSE [cs EXCEPT !.chunks[MAIN_CHUNK_NAME] = ChunkWrite(@, Op("Return"), TRUE, last_line + 1)]

\* compile(module_name, ast): the CompiledModule
compile(ast) ==
  WriteReturn(CompileNodes(CompilerNew, ast, 1), IF ast = <<>> THEN 0 ELSE ast[Len(ast)].line)

(***************************************************************************)
(* The VM.  A machine state m is [status, call_stack, stack, globals,      *)
(* result]; each handler maps the state after read_instr to the state      *)
(* after the instruction.  status is "running", "done" (run returned Ok),  *)
(* one of the three InterpretErrors, or "panic" (the process aborted).     *)
(* A usize that wrapped below zero is kept as the negative number it       *)
(* wrapped from.                                                           *)
(***************************************************************************)
Top(seq)  == seq[Len(seq)]
Rest(seq) == SubSeq(seq, 1, Len(seq) - 1)
Fail(m, st) == [m EXCEPT !.status = st]
push(m, value) == [m EXCEPT !.stack = Append(@, value)]

CurrFrame(m) == Top(m.call_stack)
SetIp(m, ip) == [m EXCEPT !.call_stack[Len(m.call_stack)].ip = ip]

\* VM::new
VMNew ==
  [status |-> "running",
   call_stack |-> << [ip |-> 0, chunk_name |-> MAIN_CHUNK_NAME, stack_offset |-> 0] >>,
   stack |-> <<>>, globals |-> <<>>, result |-> <<>>]

\* read_byte_expect for an immediate, then `body`: Imm(mod, m, F) is F(m', imm)
ImmMissing(mod, m) ==
  CurrFrame(m).ip = Len(mod.chunks[CurrFrame(m).chunk_name].code)
ImmByte(mod, m) == mod.chunks[CurrFrame(m).chunk_name].code[CurrFrame(m).ip + 1]
AfterImm(m) == SetIp(m, CurrFrame(m).ip + 1)

\* Rust's integer division truncates toward zero
TruncDiv(a, b) == Sign(a) * Sign(b) * (Abs(a) \div Abs(b))

IntOpResult(opname, a, b) ==
  CASE opname = "IAdd" -> a + b
    [] opname = "ISub" -> a - b
    [] opname = "IMul" -> a * b
    [] opname = "IDiv" -> TruncDiv(a, b)

int_op(m, opname) ==
  IF Len(m.stack) < 2 THEN Fail([m EXCEPT !.stack = <<>>], "StackEmpty")
  ELSE LET b == m.stack[Len(m.stack)]
           a == m.stack[Len(m.stack) - 1]
           m2 == [m EXCEPT !.stack = SubSeq(@, 1, Len(@) - 2)]
       IN IF a.t = "Int" /\ b.t = "Int" /\ ~(opname = "IDiv" /\ b.i = 0)
          THEN push(m2, IntV(IntOpResult(opname, a.i, b.i)))
          ELSE Fail(m2, "panic")

FloatAdd(a, b) ==
  IF a.d = 0 \/ b.d = 0
  THEN (IF (a.d = 0 /\ a.n = 0) \/ (b.d = 0 /\ b.n = 0) \/ (a.d = 0 /\ b.d = 0 /\ a.n # b.n)
        THEN FloatV(0, 0) ELSE IF a.d = 0 THEN a ELSE b)
  ELSE FloatV(a.n * b.d + b.n * a.d, a.d * b.d)
FloatNeg(a) == [a EXCEPT !.n = -a.n]
FloatMul(a, b) ==
  IF a.d = 0 \/ b.d = 0 THEN FloatV(Sign(a.n) * Sign(b.n), 0)
  ELSE FloatV(a.n * b.n, a.d * b.d)
FloatInv(a) == IF a.d = 0 THEN (IF a.n = 0 THEN a ELSE FloatV(0, 1)) ELSE FloatV(a.d, a.n)

FloatOpResult(opname, a, b) ==
  CASE opname = "FAdd" -> FloatAdd(a, b)
    [] opname = "FSub" -> FloatAdd(a, FloatNeg(b))
    [] opname = "FMul" -> FloatMul(a, b)
    [] opname = "FDiv" -> IF b.n = 0 /\ b.d # 0 THEN FloatV(Sign(a.n), 0) ELSE FloatMul(a, FloatInv(b))

float_op(m, opname) ==
  IF Len(m.stack) < 2 THEN Fail([m EXCEPT !.stack = <<>>], "StackEmpty")
  ELSE LET b == m.stack[Len(m.stack)]
           a == m.stack[Len(m.stack) - 1]
           m2 == [m EXCEPT !.stack = SubSeq(@, 1, Len(@) - 2)]
       IN IF a.t = "Float" /\ b.t = "Float"
          THEN push(m2, FloatOpResult(opname, a, b))
          ELSE Fail(m2, "panic")

\* the position of a variant in `enum Value`
VariantRank(v) ==
  CASE v.t = "Int" -> 0 [] v.t = "Float" -> 1 [] v.t = "Bool" -> 2
    [] v.t \in {"StringObj", "ArrayObj", "OptionObj"} -> 4
    [] v.t = "Fn" -> 5 [] v.t = "Nil" -> 10

OrdInt(a, b) == IF a < b THEN "Less" ELSE IF a > b THEN "Greater" ELSE "Equal"

\* f64::partial_cmp
OrdFloat(a, b) ==
  IF (a.d = 0 /\ a.n = 0) \/ (b.d = 0 /\ b.n = 0) THEN "None"
  ELSE IF a.d = 0 \/ b.d = 0
       THEN OrdInt(IF a.d = 0 THEN a.n ELSE 0, IF b.d = 0 THEN b.n ELSE 0)
       ELSE OrdInt(a.n * b.d, b.n * a.d)

Alphabet == "0123456789abcdefghijklmnopqrstuvwxyz"
CharRank(c) ==
  IF \E i \in 1..Len(Alphabet) : SubSeq(Alphabet, i, i) = c
  THEN CHOOSE i \in 1..Len(Alphabet) : SubSeq(Alphabet, i, i) = c
  ELSE 0

\* String::cmp
RECURSIVE OrdString(_, _, _)
OrdString(s1, s2, i) ==
  IF i > Len(s1) \/ i > Len(s2) THEN OrdInt(Len(s1), Len(s2))
  ELSE IF SubSeq(s1, i, i) = SubSeq(s2, i, i) THEN OrdString(s1, s2, i + 1)
  ELSE OrdInt(CharRank(SubSeq(s1, i, i)), CharRank(SubSeq(s2, i, i)))

\* the `ord` of comp_values
partial_cmp(a, b) ==
  CASE a.t = "Int" /\ b.t = "Float" -> OrdFloat(FloatV(a.i, 1), b)
    [] a.t = "Float" /\ b.t = "Float" -> OrdFloat(a, b)
    [] a.t = "Float" /\ b.t = "Int" -> OrdFloat(a, FloatV(b.i, 1))
    [] a.t = "Int" /\ b.t = "Int" -> OrdInt(a.i, b.i)
    [] a.t = "Bool" /\ b.t = "Bool" -> OrdInt(IF a.b THEN 1 ELSE 0, IF b.b THEN 1 ELSE 0)
    [] a.t = "StringObj" /\ b.t = "StringObj" -> OrdString(a.s, b.s, 1)
    [] a.t = "Fn" /\ b.t = "Fn" -> OrdString(a.n, b.n, 1)
    [] a.t = "Nil" /\ b.t = "Nil" -> "Equal"
    [] OTHER -> IF VariantRank(a) # VariantRank(b)
                THEN OrdInt(VariantRank(a), VariantRank(b))
                ELSE "None"

CompResult(opname, ord) ==
  IF ord = "None" THEN FALSE
  ELSE CASE opname = "LT"  -> ord = "Less"
         [] opname = "LTE" -> ord # "Greater"
         [] opname = "GT"  -> ord = "Greater"
         [] opname = "GTE" -> ord # "Less"
         [] opname = "Eq"  -> ord = "Equal"
         [] opname = "Neq" -> ord # "Equal"

\* the comparison taken with the operands exchanged
comp_values_swapped(m, opname) ==
  IF Len(m.stack) < 2 THEN Fail([m EXCEPT !.stack = <<>>], "StackEmpty")
  ELSE LET b == m.stack[Len(m.stack)]
           a == m.stack[Len(m.stack) - 1]
           m2 == [m EXCEPT !.stack = SubSeq(@, 1, Len(@) - 2)]
       IN push(m2, BoolV(CompResult(opname, partial_cmp(b, a))))

comp_values(m, opname) ==
  IF Len(m.stack) < 2 THEN Fail([m EXCEPT !.stack = <<>>], "StackEmpty")
  ELSE LET b == m.stack[Len(m.stack)]
           a == m.stack[Len(m.stack) - 1]
           m2 == [m EXCEPT !.stack = SubSeq(@, 1, Len(@) - 2)]
       IN push(m2, BoolV(CompResult(opname, partial_cmp(a, b))))

\* VM::store: the slot is rebased by the frame's stack_offset, the value is
\* popped, and stack_insert_at overwrites an existing slot or panics
store(m, stack_slot) ==
  LET slot == stack_slot + CurrFrame(m).stack_offset
  IN IF m.stack = <<>> THEN Fail(m, "StackEmpty")
     ELSE LET value == Top(m.stack)
              rest == Rest(m.stack)
          IN IF slot >= 0 /\ slot < Len(rest)
             THEN [m EXCEPT !.stack = [rest EXCEPT ![slot + 1] = value]]
             ELSE Fail([m EXCEPT !.stack = rest], "panic")

\* VM::load: stack_get clones the slot, or gives Nil past the stack
load(m, stack_slot) ==
  LET slot == stack_slot + CurrFrame(m).stack_offset
  IN push(m, IF slot >= 0 /\ slot < Len(m.stack) THEN m.stack[slot + 1] ELSE NilV)

\* Display of a value (to_string), as used by StrConcat
to_string(v) ==
  CASE v.t = "Int" -> ToString(v.i)
    [] v.t = "Bool" -> IF v.b THEN "true" ELSE "false"
    [] v.t = "StringObj" -> "\"" \o v.s \o "\""
    [] v.t = "Fn" -> "<func " \o v.n \o ">"
    [] v.t = "Nil" -> "None"
    [] v.t = "Float" -> IF v.d = 1 THEN ToString(v.n) ELSE ToString(v.n) \o "/" \o ToString(v.d)
    [] OTHER -> "<obj>"

exec_constant(mod, m) ==
  IF ImmMissing(mod, m) THEN Fail(m, "EndOfBytes")
  ELSE LET const_idx == ImmByte(mod, m)
           m1 == AfterImm(m)
       IN IF const_idx < Len(mod.constants)
          THEN push(m1, mod.constants[const_idx + 1])
          ELSE Fail(m1, "ConstIdxOutOfBounds")

LiteralOf(opname) ==
  CASE opname = "Nil" -> NilV
    [] opname = "T" -> BoolV(TRUE)
    [] opname = "F" -> BoolV(FALSE)
    [] OTHER -> IntV(Op(opname) - Op("IConst0"))

exec_i2f(m) ==
  IF m.stack = <<>> THEN Fail(m, "StackEmpty")
  ELSE LET val == Top(m.stack)
           m1 == [m EXCEPT !.stack = Rest(@)]
       IN IF val.t = "Int" THEN push(m1, FloatV(val.i, 1)) ELSE Fail(m1, "panic")

\* `v as i64` truncates toward zero; NaN gives 0
exec_f2i(m) ==
  IF m.stack = <<>> THEN Fail(m, "StackEmpty")
  ELSE LET val == Top(m.stack)
           m1 == [m EXCEPT !.stack = Rest(@)]
       IN IF val.t = "Float" /\ val.d # 0 THEN push(m1, IntV(TruncDiv(val.n, val.d)))
          ELSE IF val.t = "Float" /\ val.n = 0 THEN push(m1, IntV(0))
          ELSE Fail(m1, "panic")

exec_invert(m) ==
  IF m.stack = <<>> THEN Fail(m, "StackEmpty")
  ELSE LET val == Top(m.stack)
           m1 == [m EXCEPT !.stack = Rest(@)]
       IN IF val.t = "Int" THEN push(m1, IntV(-val.i))
          ELSE IF val.t = "Float" THEN push(m1, FloatNeg(val))
          ELSE Fail(m1, "panic")

exec_negate(m) ==
  IF m.stack = <<>> THEN Fail(m, "StackEmpty")
  ELSE LET val == Top(m.stack)
           m1 == [m EXCEPT !.stack = Rest(@)]
       IN IF val.t = "Bool" THEN push(m1, BoolV(~val.b)) ELSE Fail(m1, "panic")

exec_str_concat(m) ==
  IF Len(m.stack) < 2 THEN Fail([m EXCEPT !.stack = <<>>], "StackEmpty")
  ELSE LET b == m.stack[Len(m.stack)]
           a == m.stack[Len(m.stack) - 1]
           m2 == [m EXCEPT !.stack = SubSeq(@, 1, Len(@) - 2)]
       IN push(m2, StringObj(to_string(a) \o to_string(b)))

\* And / Or: b is popped and checked before a is popped
exec_and_or(m, opname) ==
  IF m.stack = <<>> THEN Fail(m, "StackEmpty")
  ELSE LET b == Top(m.stack)
           m1 == [m EXCEPT !.stack = Rest(@)]
       IN IF b.t # "Bool" THEN Fail(m1, "panic")
          ELSE IF m1.stack = <<>> THEN Fail(m1, "StackEmpty")
          ELSE LET a == Top(m1.stack)
                   m2 == [m1 EXCEPT !.stack = Rest(@)]
               IN IF a.t # "Bool" THEN Fail(m2, "panic")
                  ELSE push(m2, BoolV(IF opname = "And" THEN a.b /\ b.b ELSE a.b \/ b.b))

exec_coalesce(m) ==
  IF Len(m.stack) < 2 THEN Fail([m EXCEPT !.stack = <<>>], "StackEmpty")
  ELSE LET fallback == m.stack[Len(m.stack)]
           opt == m.stack[Len(m.stack) - 1]
           m2 == [m EXCEPT !.stack = SubSeq(@, 1, Len(@) - 2)]
       IN IF opt.t # "OptionObj" THEN Fail(m2, "panic")
          ELSE push(m2, IF opt.o # <<>> THEN opt.o[1] ELSE fallback)

\* ArrMk: the size is popped, then that many items, the deepest first in the array
exec_arr_mk(m) ==
  IF m.stack = <<>> THEN Fail(m, "StackEmpty")
  ELSE LET size == Top(m.stack)
           m1 == [m EXCEPT !.stack = Rest(@)]
       IN IF size.t # "Int" \/ size.i < 0 THEN Fail(m1, "panic")
          ELSE IF size.i > Len(m1.stack) THEN Fail([m1 EXCEPT !.stack = <<>>], "StackEmpty")
          ELSE push([m1 EXCEPT !.stack = SubSeq(@, 1, Len(@) - size.i)],
                    ArrayObj(SubSeq(m1.stack, Len(m1.stack) - size.i + 1, Len(m1.stack))))

\* an index taken as it stands, without counting from the end
ArrLoadNoWrap(target, idx) ==
  LET items == IF target.t = "StringObj" THEN target.s ELSE target.a
  IN OptionObj(IF idx < 0 \/ idx >= Len(items) THEN <<>>
               ELSE IF target.t = "StringObj" THEN << StringObj(SubSeq(items, idx + 1, idx + 1)) >>
               ELSE << items[idx + 1] >>)

ArrLoadResult(target, idx) ==
  IF target.t = "StringObj"
  THEN LET len == Len(target.s)
           i == IF idx < 0 THEN idx + len ELSE idx
       IN OptionObj(IF i >= 0 /\ i < len THEN << StringObj(SubSeq(target.s, i + 1, i + 1)) >> ELSE <<>>)
  ELSE LET len == Len(target.a)
       IN OptionObj(IF idx < -len \/ idx >= len THEN <<>>
                    ELSE << target.a[(IF idx < 0 THEN idx + len ELSE idx) + 1] >>)

exec_arr_load(m) ==
  IF m.stack = <<>> THEN Fail(m, "StackEmpty")
  ELSE LET idx == Top(m.stack)
           m1 == [m EXCEPT !.stack = Rest(@)]
       IN IF idx.t # "Int" THEN Fail(m1, "panic")
          ELSE IF m1.stack = <<>> THEN Fail(m1, "StackEmpty")
          ELSE LET target == Top(m1.stack)
                   m2 == [m1 EXCEPT !.stack = Rest(@)]
               IN IF target.t \in {"StringObj", "ArrayObj"}
                  THEN push(m2, ArrLoadResult(target, idx.i))
                  ELSE Fail(m2, "panic")

\* unsigned order of two usize values, a negative number standing for one
\* that wrapped
ULess(a, b) == IF (a < 0) = (b < 0) THEN a < b ELSE b < 0

\* get_range_endpoints: (start as usize, end as usize - start as usize); the
\* subtraction overflows when end is below start
RangeStart(len, start) == IF start < 0 THEN start + len ELSE start
RangeEnd(len, end) ==
  LET e == IF end.t = "Nil" THEN len ELSE end.i
  IN IF e < 0 THEN e + len ELSE e

SliceItems(items, start, count) ==
  \* skip(start).take(count), count < 0 standing for a count that wrapped
  IF start < 0 \/ start >= Len(items) THEN SubSeq(items, 1, 0)
  ELSE IF count < 0 \/ start + count > Len(items) THEN SubSeq(items, start + 1, Len(items))
  ELSE SubSeq(items, start + 1, start + count)

exec_arr_slc(m, overflow_checks) ==
  IF m.stack = <<>> THEN Fail(m, "StackEmpty")
  ELSE LET end == Top(m.stack)
           m1 == [m EXCEPT !.stack = Rest(@)]
       IN IF m1.stack = <<>> THEN Fail(m1, "StackEmpty")
          ELSE LET start == Top(m1.stack)
                   m2 == [m1 EXCEPT !.stack = Rest(@)]
               IN IF start.t # "Int" THEN Fail(m2, "panic")
                  ELSE IF m2.stack = <<>> THEN Fail(m2, "StackEmpty")
                  ELSE LET target == Top(m2.stack)
                           m3 == [m2 EXCEPT !.stack = Rest(@)]
                           items == IF target.t = "StringObj" THEN target.s ELSE target.a
                           s == RangeStart(Len(items), start.i)
                           e == RangeEnd(Len(items), end)
                           sliced == SliceItems(items, s, IF ULess(e, s) THEN -1 ELSE e - s)
                       IN IF target.t \notin {"StringObj", "ArrayObj"} \/ end.t \notin {"Int", "Nil"}
                          THEN Fail(m3, "panic")
                          ELSE IF ULess(e, s) /\ overflow_checks THEN Fail(m3, "panic")
                          ELSE push(m3, IF target.t = "StringObj" THEN StringObj(sliced)
                                        ELSE ArrayObj(sliced))

\* GStore: the name is popped first, the value second
\* GStore taking the value from the top and the name from beneath it
exec_gstore_value_first(m) ==
  IF m.stack = <<>> THEN Fail(m, "StackEmpty")
  ELSE LET value == Top(m.stack)
           m1 == [m EXCEPT !.stack = Rest(@)]
       IN IF m1.stack = <<>> THEN Fail(m1, "StackEmpty")
          ELSE IF Top(m1.stack).t # "StringObj" THEN Fail([m1 EXCEPT !.stack = Rest(@)], "panic")
          ELSE [m1 EXCEPT !.stack = Rest(@),
                          !.globals = (Top(m1.stack).s :> value) @@ m1.globals]

exec_gstore(m) ==
  IF m.stack = <<>> THEN Fail(m, "StackEmpty")
  ELSE LET name == Top(m.stack)
           m1 == [m EXCEPT !.stack = Rest(@)]
       IN IF name.t # "StringObj" THEN Fail(m1, "panic")
          ELSE IF m1.stack = <<>> THEN Fail(m1, "StackEmpty")
          ELSE [m1 EXCEPT !.stack = Rest(@),
                          !.globals = (name.s :> Top(m1.stack)) @@ m1.globals]

exec_gload(m) ==
  IF m.stack = <<>> THEN Fail(m, "StackEmpty")
  ELSE LET name == Top(m.stack)
           m1 == [m EXCEPT !.stack = Rest(@)]
       IN IF name.t # "StringObj" THEN Fail(m1, "panic")
          ELSE push(m1, IF name.s \in DOMAIN m1.globals THEN m1.globals[name.s] ELSE NilV)

\* LStore0..4 take the slot from the opcode, LStore from an immediate
exec_lstore(mod, m, opname) ==
  IF opname = "LStore"
  THEN IF ImmMissing(mod, m) THEN Fail(m, "EndOfBytes")
       ELSE store(AfterImm(m), ImmByte(mod, m))
  ELSE store(m, Op(opname) - Op("LStore0"))

exec_lload(mod, m, opname) ==
  IF opname = "LLoad"
  THEN IF ImmMissing(mod, m) THEN Fail(m, "EndOfBytes")
       ELSE load(AfterImm(m), ImmByte(mod, m))
  ELSE load(m, Op(opname) - Op("LLoad0"))

\* a jump that moves ip back to the start of the chunk; run has no arm that
\* does this (JumpB is in the table only)
jump_back(mod, m) ==
  IF ImmMissing(mod, m) THEN Fail(m, "EndOfBytes")
  ELSE SetIp(m, 0)

exec_jump(mod, m) ==
  IF ImmMissing(mod, m) THEN Fail(m, "EndOfBytes")
  ELSE SetIp(m, CurrFrame(m).ip + 1 + ImmByte(mod, m))

exec_jump_if_f(mod, m) ==
  IF ImmMissing(mod, m) THEN Fail(m, "EndOfBytes")
  ELSE LET jump_offset == ImmByte(mod, m)
           m1 == AfterImm(m)
       IN IF m1.stack = <<>> THEN Fail(m1, "StackEmpty")
          ELSE LET cond == Top(m1.stack)
                   m2 == [m1 EXCEPT !.stack = Rest(@)]
               IN IF cond.t # "Bool" THEN Fail(m2, "panic")
                  ELSE IF ~cond.b THEN SetIp(m2, CurrFrame(m2).ip + jump_offset)
                  ELSE m2

\* Invoke: the name is popped, one immediate is read as the arity, and the
\* frame's stack_offset is stack.len() - arity in usize arithmetic
exec_invoke(mod, m, overflow_checks) ==
  IF m.stack = <<>> THEN Fail(m, "StackEmpty")
  ELSE LET func_name == Top(m.stack)
           m1 == [m EXCEPT !.stack = Rest(@)]
       IN IF func_name.t # "StringObj" THEN Fail(m1, "panic")
          ELSE IF ImmMissing(mod, m1) THEN Fail(m1, "EndOfBytes")
          ELSE LET arity == ImmByte(mod, m1)
                   m2 == AfterImm(m1)
                   stack_offset == Len(m2.stack) - arity
               IN IF stack_offset < 0 /\ overflow_checks THEN Fail(m2, "panic")
                  ELSE [m2 EXCEPT !.call_stack =
                          Append(@, [ip |-> 0, chunk_name |-> func_name.s,
                                     stack_offset |-> stack_offset])]

exec_pop(m) ==
  IF m.stack = <<>> THEN Fail(m, "StackEmpty") ELSE [m EXCEPT !.stack = Rest(@)]

\* Return: a frame whose chunk is named main ends the run with the popped
\* top of the stack (or none); any other frame is popped
\* Return popping the current frame in the main chunk as well
exec_return_pop_root(m) ==
  IF CurrFrame(m).chunk_name = MAIN_CHUNK_NAME
  THEN [m EXCEPT !.status = "done",
                 !.result = IF m.stack = <<>> THEN <<>> ELSE << Top(m.stack) >>,
                 !.stack = IF m.stack = <<>> THEN <<>> ELSE Rest(m.stack),
                 !.call_stack = Rest(@)]
  ELSE [m EXCEPT !.call_stack = Rest(@)]

exec_return(m) ==
  IF CurrFrame(m).chunk_name = MAIN_CHUNK_NAME
  THEN [m EXCEPT !.status = "done",
                 !.result = IF m.stack = <<>> THEN <<>> ELSE << Top(m.stack) >>,
                 !.stack = IF m.stack = <<>> THEN <<>> ELSE Rest(m.stack)]
  ELSE [m EXCEPT !.call_stack = Rest(@)]

(***************************************************************************)
(* The state machine: an input (a typed AST, or a module handed to         *)
(* VM::new directly) is compiled, a VM is created, and run executes one    *)
(* instruction per step until it returns or aborts.                        *)
(***************************************************************************)
VARIABLES
  input,            \* index into Inputs
  overflow_checks,  \* whether the build panics on integer overflow (debug) or wraps (release)
  module,           \* the CompiledModule
  status,           \* "source", "compile_failed", "compiled", then the VM's status
  call_stack, stack, globals,
  result,           \* what run returned in Ok: <<>> (None) or <<value>>
  if_entry,         \* history: per compiled if construct, the stack length when
                    \* control last stood at its first byte (-1: never)
  lookup_name,      \* the name handed to get_binding_index ("" outside a lookup)
  lookup_index      \* what get_binding_index returned (-1: not called)

vars == <<input, overflow_checks, module, status, call_stack, stack, globals, result, if_entry,
          lookup_name, lookup_index>>

M == [status |-> status, call_stack |-> call_stack, stack |-> stack,
      globals |-> globals, result |-> result]

\* if_entry once the machine is in state m
IfEntry(m) ==
  [k \in 1..Len(module.ifs) |->
     IF /\ m.status = "running"
        /\ m.call_stack # <<>>
        /\ CurrFrame(m).chunk_name = module.ifs[k].chunk
        /\ CurrFrame(m).ip = module.ifs[k].start
     THEN Len(m.stack) ELSE if_entry[k]]

Become(m) ==
  /\ status' = m.status
  /\ if_entry' = IfEntry(m)
  /\ call_stack' = m.call_stack
  /\ stack' = m.stack
  /\ globals' = m.globals
  /\ result' = m.result
  /\ UNCHANGED <<input, overflow_checks, module, lookup_name, lookup_index>>

\* read_instr can deliver an opcode: the chunk exists and ip is inside it
CanFetch ==
  /\ status = "running"
  /\ CurrFrame(M).chunk_name \in DOMAIN module.chunks
  /\ CurrFrame(M).ip < Len(module.chunks[CurrFrame(M).chunk_name].code)

Code == module.chunks[CurrFrame(M).chunk_name].code
Instr == OpcodeFrom(Code[CurrFrame(M).ip + 1])
Fetched == SetIp(M, CurrFrame(M).ip + 1)

IntOps == {"IAdd", "ISub", "IMul", "IDiv"}
FloatOps == {"FAdd", "FSub", "FMul", "FDiv"}
CompOps == {"LT", "LTE", "GT", "GTE", "Eq", "Neq"}
LiteralOps == {"Nil", "IConst0", "IConst1", "IConst2", "IConst3", "IConst4", "T", "F"}
LStoreOps == {"LStore0", "LStore1", "LStore2", "LStore3", "LStore4", "LStore"}
LLoadOps == {"LLoad0", "LLoad1", "LLoad2", "LLoad3", "LLoad4", "LLoad"}
\* the opcodes `match instr` of run has an arm for
HandledOps ==
  {"Constant"} \cup LiteralOps \cup IntOps \cup FloatOps \cup CompOps \cup LStoreOps
  \cup LLoadOps \cup {"I2F", "F2I", "Invert", "StrConcat", "And", "Or", "Negate",
                      "Coalesce", "ArrMk", "ArrLoad", "ArrSlc", "GStore", "GLoad",
                      "Jump", "JumpIfF", "Invoke", "Pop", "Return"}

(***************************************************************************)
(* Inputs: typed ASTs as the typechecker would hand them to compile, and   *)
(* a few modules given to VM::new directly.                                *)
(***************************************************************************)
\* how many eight-element array statements the long then-block of AstLongBranch holds
LongBlockNodes == 12

Param(name, line) == [name |-> name, line |-> line]
Some(x) == << x >>
None == <<>>

\* 1 + 2 * 3
AstArith ==
  << Binary("Add", "Int", IntLiteral(1, 1),
            Binary("Mul", "Int", IntLiteral(2, 1), IntLiteral(3, 1), 1), 1) >>

\* 7 - 9 / 2 ; 1.5 + 2 ; -5 ; !true
AstOps ==
  << Binary("Sub", "Int", IntLiteral(7, 1),
            Binary("Div", "Int", IntLiteral(9, 1), IntLiteral(2, 1), 1), 1),
     Binary("Add", "Float", FloatLiteral(3, 2, 2), IntLiteral(2, 2), 2),
     Unary("Minus", IntLiteral(5, 3), 3),
     Unary("Negate", BoolLiteral(TRUE, 4), 4) >>

\* true && false || true ; 1 <= 5 == true ; "abc" + "def" ; [1, 2][2] ?: 3 ; "abc"[-1:]
AstLogic ==
  << Binary("Or", "Bool",
            Binary("And", "Bool", BoolLiteral(TRUE, 1), BoolLiteral(FALSE, 1), 1),
            BoolLiteral(TRUE, 1), 1),
     Binary("Eq", "Bool",
            Binary("Lte", "Bool", IntLiteral(1, 2), IntLiteral(5, 2), 2),
            BoolLiteral(TRUE, 2), 2),
     Binary("Add", "String", StringLiteral("abc", 3), StringLiteral("def", 3), 3),
     Binary("Coalesce", "Int",
            IndexingIndex(Array(<< IntLiteral(1, 4), IntLiteral(2, 4) >>, 4),
                          IntLiteral(2, 4), "Option", 4),
            IntLiteral(3, 4), 4),
     IndexingRange(StringLiteral("abc", 5), Some(Unary("Minus", IntLiteral(1, 5), 5)), None, 5) >>

\* [1, 2, 3, 4, 5][3 + 1]
AstIndexing ==
  << IndexingIndex(Array(<< IntLiteral(1, 1), IntLiteral(2, 1), IntLiteral(3, 1),
                            IntLiteral(4, 1), IntLiteral(5, 1) >>, 1),
                   Binary("Add", "Int", IntLiteral(3, 1), IntLiteral(1, 1), 1), "Option", 1) >>

\* val a = 1 ; a
AstBinding ==
  << BindingDecl("a", Some(IntLiteral(1, 1)), 0, 1), Identifier("a", "Int", 2) >>

\* val a = 1 ; var b = 2 ; val c = b = a = 3
AstAssignChain ==
  << BindingDecl("a", Some(IntLiteral(1, 1)), 0, 1),
     BindingDecl("b", Some(IntLiteral(2, 2)), 0, 2),
     BindingDecl("c", Some(Assignment("b", Assignment("a", IntLiteral(3, 3), 3), 3)), 0, 3) >>

\* var a: Int ; 1 + (a = 2)
AstAssignInExpr ==
  << BindingDecl("a", None, 0, 1),
     Binary("Add", "Int", IntLiteral(1, 2),
            Grouped(Assignment("a", IntLiteral(2, 2), 2), 2), 2) >>

\* if (1 == 2) 123 else 456, as an expression
AstIfExpr ==
  << IfExpression(Binary("Eq", "Bool", IntLiteral(1, 1), IntLiteral(2, 1), 1),
                  << IntLiteral(123, 1) >>, Some(<< IntLiteral(456, 1) >>), "Int", 1) >>

\* if (1 == 2) 123 else if (3 < 4) 456 else 789 ; if (1 == 2) 123 ; 9
AstIfStmts ==
  << IfStatement(Binary("Eq", "Bool", IntLiteral(1, 1), IntLiteral(2, 1), 1),
                 << IntLiteral(123, 1) >>,
                 Some(<< IfStatement(Binary("Lt", "Bool", IntLiteral(3, 1), IntLiteral(4, 1), 1),
                                     << IntLiteral(456, 1) >>,
                                     Some(<< IntLiteral(789, 1) >>), 1) >>), 1),
     IfStatement(Binary("Eq", "Bool", IntLiteral(1, 2), IntLiteral(2, 2), 2),
                 << IntLiteral(123, 2) >>, None, 2),
     IntLiteral(9, 3) >>

\* val a = 123 ; if (true) { val a = 456 ; a + 1 }
AstIfBinding ==
  << BindingDecl("a", Some(IntLiteral(123, 1)), 0, 1),
     IfStatement(BoolLiteral(TRUE, 2),
                 << BindingDecl("a", Some(IntLiteral(456, 2)), 1, 2),
                    Binary("Add", "Int", Identifier("a", "Int", 2), IntLiteral(1, 2), 2) >>,
                 None, 2) >>

\* [5, 5, ..., 5] as a statement: 2n + 4 bytes with its Pop
ArrayOfFives(n, line) == Array([i \in 1..n |-> IntLiteral(5, line)], line)

\* if (cond) { 5 ; 5 ; [5 x 5] ; [5 x 8] ; ... ; [5 x 8] } else { 6 } ; 9
\* the then-block is 20 + 20 * LongBlockNodes bytes long
AstLongBranch(cond) ==
  << IfStatement(BoolLiteral(cond, 1),
                 << IntLiteral(5, 1), IntLiteral(5, 1), ArrayOfFives(5, 1) >>
                   \o [i \in 1..LongBlockNodes |-> ArrayOfFives(8, 1)],
                 Some(<< IntLiteral(6, 1) >>), 1),
     IntLiteral(9, 2) >>

\* func inc(n: Int) { n + 1 } ; inc(n: 1)
AstInc ==
  << FunctionDecl("inc", << Param("n", 1) >>,
                  << Binary("Add", "Int", Identifier("n", "Int", 1), IntLiteral(1, 1), 1) >>, 0, 1),
     Invocation("inc", << IntLiteral(1, 2) >>, "Int", 2) >>

\* var a = 1 ; func abc() { a = 3 } ; abc() ; a
AstOuterAssign ==
  << BindingDecl("a", Some(IntLiteral(1, 1)), 0, 1),
     FunctionDecl("abc", << >>, << Assignment("a", IntLiteral(3, 2), 2) >>, 0, 2),
     Invocation("abc", << >>, "Int", 3),
     Identifier("a", "Int", 4) >>

\* [7, 8, if (true) { func sub(x: Int, y: Int) { x - y } ; sub(5, 3) + 2 } else { 0 }]
AstTwoArgs ==
  << Array(<< IntLiteral(7, 1), IntLiteral(8, 1),
              IfExpression(BoolLiteral(TRUE, 1),
                << FunctionDecl("sub", << Param("x", 1), Param("y", 1) >>,
                     << Binary("Sub", "Int", Identifier("x", "Int", 1),
                               Identifier("y", "Int", 1), 1) >>, 1, 1),
                   Binary("Add", "Int",
                          Invocation("sub", << IntLiteral(5, 1), IntLiteral(3, 1) >>, "Int", 1),
                          IntLiteral(2, 1), 1) >>,
                Some(<< IntLiteral(0, 1) >>), "Int", 1) >>, 1) >>

\* var a: Int ; [7, 8, 9, if (true) { func abc() { a = 3 } ; abc() + 0 } else { 0 }, a]
AstOuterAssignInExpr ==
  << BindingDecl("a", None, 0, 1),
     Array(<< IntLiteral(7, 2), IntLiteral(8, 2), IntLiteral(9, 2),
              IfExpression(BoolLiteral(TRUE, 2),
                << FunctionDecl("abc", << >>, << Assignment("a", IntLiteral(3, 2), 2) >>, 1, 2),
                   Binary("Add", "Int", Invocation("abc", << >>, "Int", 2),
                          IntLiteral(0, 2), 2) >>,
                Some(<< IntLiteral(0, 2) >>), "Int", 2),
              Identifier("a", "Int", 2) >>, 2) >>

\* [7, if (true) { func one() { 1 } ; one() + 5 } else { 0 }]
AstCallThenConstant ==
  << Array(<< IntLiteral(7, 1),
              IfExpression(BoolLiteral(TRUE, 1),
                << FunctionDecl("one", << >>, << IntLiteral(1, 1) >>, 1, 1),
                   Binary("Add", "Int", Invocation("one", << >>, "Int", 1),
                          IntLiteral(5, 1), 1) >>,
                Some(<< IntLiteral(0, 1) >>), "Int", 1) >>, 1) >>

\* [7, 8, if (true) { func f() { 1 2 3 } ; if (true) { f() + 0 } ; 5 } else { 0 }]
AstCallInIfStmt ==
  << Array(<< IntLiteral(7, 1), IntLiteral(8, 1),
              IfExpression(BoolLiteral(TRUE, 1),
                << FunctionDecl("f", << >>,
                     << IntLiteral(1, 1), IntLiteral(2, 1), IntLiteral(3, 1) >>, 1, 1),
                   IfStatement(BoolLiteral(TRUE, 1),
                     << Binary("Add", "Int", Invocation("f", << >>, "Int", 1),
                               IntLiteral(0, 1), 1) >>, None, 1),
                   IntLiteral(5, 1) >>,
                Some(<< IntLiteral(0, 1) >>), "Int", 1) >>, 1) >>

\* val z = 0
\* func f(x: Int, y: Int) {
\*   val a = 1 ; func g(p: Int) { val q = 2 ; q } ; if (true) { val b = 3 ; b } ; g(a)
\* }
AstNestedFn ==
  << BindingDecl("z", Some(IntLiteral(0, 1)), 0, 1),
     FunctionDecl("f", << Param("x", 2), Param("y", 2) >>,
       << BindingDecl("a", Some(IntLiteral(1, 3)), 1, 3),
          FunctionDecl("g", << Param("p", 3) >>,
            << BindingDecl("q", Some(IntLiteral(2, 3)), 2, 3),
               Identifier("q", "Int", 3) >>, 1, 3),
          IfStatement(BoolLiteral(TRUE, 3),
            << BindingDecl("b", Some(IntLiteral(3, 3)), 2, 3),
               Identifier("b", "Int", 3) >>, None, 3),
          Invocation("g", << Identifier("a", "Int", 3) >>, "Int", 3) >>, 0, 2) >>

\* func f(x: Int) { func f() { 1 } ; 2 }
AstSameNameFn ==
  << FunctionDecl("f", << Param("x", 1) >>,
       << FunctionDecl("f", << >>, << IntLiteral(1, 1) >>, 1, 1),
          IntLiteral(2, 1) >>, 0, 1) >>

\* var a: Int ; val b = 1 ; a
AstUnset ==
  << BindingDecl("a", None, 0, 1),
     BindingDecl("b", Some(IntLiteral(1, 2)), 0, 2),
     Identifier("a", "Int", 3) >>

\* if (true) {      (line 1)
\*   1              (line 2)
\* }                (line 3)
AstIfMultiLine ==
  << IfStatement(BoolLiteral(TRUE, 1), << IntLiteral(1, 2) >>, None, 1) >>

\* val a = 123 ; if (false) { val a = 456 } ; a
AstIfShadowThenUse ==
  << BindingDecl("a", Some(IntLiteral(123, 1)), 0, 1),
     IfStatement(BoolLiteral(FALSE, 2),
                 << BindingDecl("a", Some(IntLiteral(456, 2)), 1, 2) >>, None, 2),
     Identifier("a", "Int", 3) >>

\* 1 / 0
AstDivZero ==
  << Binary("Div", "Int", IntLiteral(1, 1), IntLiteral(0, 1), 1) >>

\* [7, if (true) { func inc(n: Int) { n + 1 } ; inc(2) } else { 0 }]
AstCallLast ==
  << Array(<< IntLiteral(7, 1),
              IfExpression(BoolLiteral(TRUE, 1),
                << FunctionDecl("inc", << Param("n", 1) >>,
                     << Binary("Add", "Int", Identifier("n", "Int", 1), IntLiteral(1, 1), 1) >>,
                     1, 1),
                   Invocation("inc", << IntLiteral(2, 1) >>, "Int", 1) >>,
                Some(<< IntLiteral(0, 1) >>), "Int", 1) >>, 1) >>

\* a module as VM::new takes it, with every byte's role given
RawModule(code, isop, constants) ==
  [CompilerNew EXCEPT !.chunks[MAIN_CHUNK_NAME].code = code,
                      !.chunks[MAIN_CHUNK_NAME].isop = isop,
                      !.chunks[MAIN_CHUNK_NAME].lines = << Len(code) >>,
                      !.chunks[MAIN_CHUNK_NAME].written = [i \in 1..Len(code) |-> 1],
                      !.constants = constants]

\* IConst1 ; Constant "g" ; GStore ; Constant "g" ; GLoad ; Return
ModGlobals ==
  RawModule(<< Op("IConst1"), Op("Constant"), 0, Op("GStore"), Op("Constant"), 0,
               Op("GLoad"), Op("Return") >>,
            << TRUE, TRUE, FALSE, TRUE, TRUE, FALSE, TRUE, TRUE >>,
            << StringObj("g") >>)

\* IConst1 ; PopN 1 ; Return
ModPopN ==
  RawModule(<< Op("IConst1"), Op("PopN"), 1, Op("Return") >>,
            << TRUE, TRUE, FALSE, TRUE >>, << >>)

\* IConst1 ; Pop   (no Return)
ModNoReturn ==
  RawModule(<< Op("IConst1"), Op("Pop") >>, << TRUE, TRUE >>, << >>)

\* Jump 5 ; Return   (the jump passes the end of the chunk)
ModJumpPast ==
  RawModule(<< Op("Jump"), 5, Op("Return") >>, << TRUE, FALSE, TRUE >>, << >>)

\* main calls itself once:
\*  0 LLoad0 ; Nil ; Eq ; JumpIfF 7          (slot 0 unset: go on, else to 12)
\*  5 IConst1 ; Constant "main" ; Invoke 1
\* 10 Pop ; IConst2 ; 12 Return
ModRecurseMain ==
  RawModule(<< Op("LLoad0"), Op("Nil"), Op("Eq"), Op("JumpIfF"), 7,
               Op("IConst1"), Op("Constant"), 0, Op("Invoke"), 1,
               Op("Pop"), Op("IConst2"), Op("Return") >>,
            << TRUE, TRUE, TRUE, TRUE, FALSE, TRUE, TRUE, FALSE, TRUE, FALSE,
               TRUE, TRUE, TRUE >>,
            << StringObj(MAIN_CHUNK_NAME) >>)

\* for each of Neq, Eq, LT, LTE, GT, GTE: NaN op NaN ; Pop (6 bytes each),
\* then 1 op 2 ; Pop (4 bytes each), then Return.  constants[0] is NaN.
CompareOps == << "Neq", "Eq", "LT", "LTE", "GT", "GTE" >>

ModCompare ==
  RawModule([i \in 1..61 |->
               IF i = 61 THEN Op("Return")
               ELSE IF i <= 36
               THEN << Op("Constant"), 0, Op("Constant"), 0,
                       Op(CompareOps[((i - 1) \div 6) + 1]), Op("Pop") >>[((i - 1) % 6) + 1]
               ELSE << Op("IConst1"), Op("IConst2"),
                       Op(CompareOps[((i - 37) \div 4) + 1]), Op("Pop") >>[((i - 37) % 4) + 1]],
            [i \in 1..61 |-> ~(i <= 36 /\ (i - 1) % 6 \in {1, 3})],
            << FloatV(0, 0) >>)

\* Constant "g" ; Constant "h" ; GStore ; IConst1 ; Constant "g" ; GStore ;
\* Constant "h" ; GLoad ; Constant "k" ; GLoad ; Return
ModGlobalsTwo ==
  RawModule(<< Op("Constant"), 0, Op("Constant"), 1, Op("GStore"),
               Op("IConst1"), Op("Constant"), 0, Op("GStore"),
               Op("Constant"), 1, Op("GLoad"), Op("Constant"), 2, Op("GLoad"),
               Op("Return") >>,
            << TRUE, FALSE, TRUE, FALSE, TRUE, TRUE, TRUE, FALSE, TRUE,
               TRUE, FALSE, TRUE, TRUE, FALSE, TRUE, TRUE >>,
            << StringObj("g"), StringObj("h"), StringObj("k") >>)

\* IConst3 ; IConst2 ; IMod ; Return
ModIMod ==
  RawModule(<< Op("IConst3"), Op("IConst2"), Op("IMod"), Op("Return") >>,
            << TRUE, TRUE, TRUE, TRUE >>, << >>)

\* the inc chunk as compile emits it, called from a main that follows Invoke
\* with the arity byte run reads: IConst3 ; Constant "inc" ; Invoke 1 ; Return
WithMain(mod, code, isop) ==
  [mod EXCEPT !.chunks[MAIN_CHUNK_NAME].code = code,
              !.chunks[MAIN_CHUNK_NAME].isop = isop,
              !.chunks[MAIN_CHUNK_NAME].lines = << Len(code) >>,
              !.chunks[MAIN_CHUNK_NAME].written = [i \in 1..Len(code) |-> 1],
              !.ifs = << >>]

\* the compiled module of AstInc has the constants Fn inc (0) and "inc" (1)
ModInc ==
  WithMain(compile(AstInc),
           << Op("IConst3"), Op("Constant"), 1, Op("Invoke"), 1, Op("Return") >>,
           << TRUE, TRUE, FALSE, TRUE, FALSE, TRUE >>)

\* the binary arithmetic nodes over two literal operands: every operator of
\* visit_binary's arithmetic arms, both result types, an Int or a Float on
\* either side (6 or 3.5 on the left, 2 or 2.5 on the right)
NumBinaryPrograms == 32

BinaryProgram(i) ==
  LET j == i - 1
  IN << Binary(<< "Add", "Sub", "Mul", "Div" >>[((j \div 8) % 4) + 1],
               << "Int", "Float" >>[((j \div 4) % 2) + 1],
               << IntLiteral(6, 1), FloatLiteral(7, 2, 1) >>[((j \div 2) % 2) + 1],
               << IntLiteral(2, 1), FloatLiteral(5, 2, 1) >>[(j % 2) + 1], 1) >>

\* a && b and a || b for both values of a, with b a literal of either value
\* or the assignment (x = true) to a variable declared on the line before
NumLogicPrograms == 12

LogicProgram(i) ==
  LET j == i - 1
      op == << "And", "Or" >>[((j \div 6) % 2) + 1]
      a == BoolLiteral((j \div 3) % 2 = 1, 2)
  IN IF j % 3 = 2
     THEN << BindingDecl("x", None, 0, 1),
             Binary(op, "Bool", a, Grouped(Assignment("x", BoolLiteral(TRUE, 2), 2), 2), 2) >>
     ELSE << Binary(op, "Bool", a, BoolLiteral(j % 3 = 1, 2), 2) >>

LogicPrograms ==
  [i \in 1..NumLogicPrograms |->
     [name |-> "logic_op", kind |-> "ast", ast |-> LogicProgram(i)]]

BinaryPrograms ==
  [i \in 1..NumBinaryPrograms |->
     [name |-> "binary", kind |-> "ast", ast |-> BinaryProgram(i)]]

Inputs ==
  << [name |-> "arith", kind |-> "ast", ast |-> AstArith],
     [name |-> "ops", kind |-> "ast", ast |-> AstOps],
     [name |-> "logic", kind |-> "ast", ast |-> AstLogic],
     [name |-> "indexing", kind |-> "ast", ast |-> AstIndexing],
     [name |-> "binding", kind |-> "ast", ast |-> AstBinding],
     [name |-> "assign_chain", kind |-> "ast", ast |-> AstAssignChain],
     [name |-> "assign_in_expr", kind |-> "ast", ast |-> AstAssignInExpr],
     [name |-> "if_expr", kind |-> "ast", ast |-> AstIfExpr],
     [name |-> "if_stmts", kind |-> "ast", ast |-> AstIfStmts],
     [name |-> "if_binding", kind |-> "ast", ast |-> AstIfBinding],
     [name |-> "long_branch_false", kind |-> "ast", ast |-> AstLongBranch(FALSE)],
     [name |-> "long_branch_true", kind |-> "ast", ast |-> AstLongBranch(TRUE)],
     [name |-> "inc", kind |-> "ast", ast |-> AstInc],
     [name |-> "outer_assign", kind |-> "ast", ast |-> AstOuterAssign],
     [name |-> "two_args", kind |-> "ast", ast |-> AstTwoArgs],
     [name |-> "outer_assign_in_expr", kind |-> "ast", ast |-> AstOuterAssignInExpr],
     [name |-> "call_then_constant", kind |-> "ast", ast |-> AstCallThenConstant],
     [name |-> "call_in_if_stmt", kind |-> "ast", ast |-> AstCallInIfStmt],
     [name |-> "empty", kind |-> "ast", ast |-> << >>],
     [name |-> "mod_globals", kind |-> "module", module |-> ModGlobals],
     [name |-> "mod_popn", kind |-> "module", module |-> ModPopN],
     [name |-> "mod_no_return", kind |-> "module", module |-> ModNoReturn],
     [name |-> "mod_inc", kind |-> "module", module |-> ModInc],
     [name |-> "div_zero", kind |-> "ast", ast |-> AstDivZero],
     [name |-> "call_last", kind |-> "ast", ast |-> AstCallLast],
     [name |-> "mod_jump_past", kind |-> "module", module |-> ModJumpPast],
     [name |-> "mod_recurse_main", kind |-> "module", module |-> ModRecurseMain],
     [name |-> "nested_fn", kind |-> "ast", ast |-> AstNestedFn],
     [name |-> "same_name_fn", kind |-> "ast", ast |-> AstSameNameFn],
     [name |-> "unset", kind |-> "ast", ast |-> AstUnset],
     [name |-> "lit_small", kind |-> "ast", ast |-> << IntLiteral(4, 1) >>],
     [name |-> "lit_const", kind |-> "ast", ast |-> << IntLiteral(5, 1) >>],
     [name |-> "lit_big", kind |-> "ast", ast |-> << BigIntLiteral(1, 5, 1) >>],
     [name |-> "mod_imod", kind |-> "module", module |-> ModIMod],
     [name |-> "mod_compare", kind |-> "module", module |-> ModCompare] >>
  \o BinaryPrograms
  \o << [name |-> "if_multi_line", kind |-> "ast", ast |-> AstIfMultiLine] >>
  \o LogicPrograms
  \o << [name |-> "mod_globals_two", kind |-> "module", module |-> ModGlobalsTwo],
        [name |-> "if_shadow_then_use", kind |-> "ast", ast |-> AstIfShadowThenUse] >>

Input == Inputs[input]

(***************************************************************************)
(* Actions                                                                 *)
(***************************************************************************)
Init ==
  /\ input \in 1..Len(Inputs)
  /\ overflow_checks \in BOOLEAN
  /\ module = IF Inputs[input].kind = "module" THEN Inputs[input].module ELSE CompilerNew
  /\ status = IF Inputs[input].kind = "module" THEN "compiled" ELSE "source"
  /\ call_stack = <<>>
  /\ stack = <<>>
  /\ globals = <<>>
  /\ result = <<>>
  /\ if_entry = <<>>
  /\ lookup_name = ""
  /\ lookup_index = -1

\* compile(module_name, ast)
Compile ==
  /\ status = "source"
  /\ module' = compile(Input.ast)
  /\ status' = IF module'.ok THEN "compiled" ELSE "compile_failed"
  /\ if_entry' = [k \in 1..Len(module'.ifs) |-> -1]
  /\ UNCHANGED <<input, overflow_checks, call_stack, stack, globals, result,
                 lookup_name, lookup_index>>

\* VM::new(module), followed by the call of run
NewVM ==
  /\ status = "compiled"
  /\ Become(VMNew)

\* read_instr delivers nothing: EndOfBytes at the end of the chunk; the
\* process aborts when the chunk is missing or ip is past its end
ReadInstrFails ==
  /\ status = "running"
  /\ ~CanFetch
  /\ Become(Fail(M, IF /\ CurrFrame(M).chunk_name \in DOMAIN module.chunks
                       /\ CurrFrame(M).ip = Len(module.chunks[CurrFrame(M).chunk_name].code)
                    THEN "EndOfBytes" ELSE "panic"))

\* an opcode run has no arm for (or a byte that is no opcode)
ExecNoArm == CanFetch /\ Instr \notin HandledOps /\ Become(Fail(Fetched, "panic"))

ExecConstant == CanFetch /\ Instr = "Constant" /\ Become(exec_constant(module, Fetched))
ExecLiteral == CanFetch /\ Instr \in LiteralOps /\ Become(push(Fetched, LiteralOf(Instr)))
ExecIntOp == CanFetch /\ Instr \in IntOps /\ Become(int_op(Fetched, Instr))
ExecFloatOp == CanFetch /\ Instr \in FloatOps /\ Become(float_op(Fetched, Instr))
ExecCoerce ==
  /\ CanFetch /\ Instr \in {"I2F", "F2I"}
  /\ Become(IF Instr = "I2F" THEN exec_i2f(Fetched) ELSE exec_f2i(Fetched))
ExecUnary ==
  /\ CanFetch /\ Instr \in {"Invert", "Negate"}
  /\ Become(IF Instr = "Invert" THEN exec_invert(Fetched) ELSE exec_negate(Fetched))
ExecStrConcat == CanFetch /\ Instr = "StrConcat" /\ Become(exec_str_concat(Fetched))
ExecAndOr == CanFetch /\ Instr \in {"And", "Or"} /\ Become(exec_and_or(Fetched, Instr))
ExecCoalesce == CanFetch /\ Instr = "Coalesce" /\ Become(exec_coalesce(Fetched))
ExecCompare == CanFetch /\ Instr \in CompOps /\ Become(comp_values(Fetched, Instr))
ExecArrMk == CanFetch /\ Instr = "ArrMk" /\ Become(exec_arr_mk(Fetched))
ExecArrLoad == CanFetch /\ Instr = "ArrLoad" /\ Become(exec_arr_load(Fetched))
ExecArrSlc == CanFetch /\ Instr = "ArrSlc" /\ Become(exec_arr_slc(Fetched, overflow_checks))
ExecGStore == CanFetch /\ Instr = "GStore" /\ Become(exec_gstore(Fetched))
ExecGLoad == CanFetch /\ Instr = "GLoad" /\ Become(exec_gload(Fetched))
ExecLStore == CanFetch /\ Instr \in LStoreOps /\ Become(exec_lstore(module, Fetched, Instr))
ExecLLoad == CanFetch /\ Instr \in LLoadOps /\ Become(exec_lload(module, Fetched, Instr))
ExecJump == CanFetch /\ Instr = "Jump" /\ Become(exec_jump(module, Fetched))
ExecJumpIfF == CanFetch /\ Instr = "JumpIfF" /\ Become(exec_jump_if_f(module, Fetched))
ExecInvoke == CanFetch /\ Instr = "Invoke" /\ Become(exec_invoke(module, Fetched, overflow_checks))
ExecPop == CanFetch /\ Instr = "Pop" /\ Become(exec_pop(Fetched))
ExecReturn == CanFetch /\ Instr = "Return" /\ Become(exec_return(Fetched))

\* one turn of the loop of run
RunStep ==
  \/ ReadInstrFails \/ ExecNoArm
  \/ ExecConstant \/ ExecLiteral \/ ExecIntOp \/ ExecFloatOp \/ ExecCoerce \/ ExecUnary
  \/ ExecStrConcat \/ ExecAndOr \/ ExecCoalesce \/ ExecCompare
  \/ ExecArrMk \/ ExecArrLoad \/ ExecArrSlc \/ ExecGStore \/ ExecGLoad
  \/ ExecLStore \/ ExecLLoad \/ ExecJump \/ ExecJumpIfF \/ ExecInvoke
  \/ ExecPop \/ ExecReturn

Next == Compile \/ NewVM \/ RunStep

Spec == Init /\ [][Next]_vars

\* Identifier resolution on its own: a compiler whose binding vector holds
\* 1..MaxBindings descriptors over Names is asked for one of the names.
MaxBindings == 3
Names == {"a", "b", "c"}

RECURSIVE BindingVectors(_)
BindingVectors(n) ==
  IF n = 0 THEN {<<>>}
  ELSE {Append(v, [name |-> x, scope_depth |-> 0]) : v \in BindingVectors(n - 1), x \in Names}

LookupInit ==
  /\ input = 1
  /\ overflow_checks = TRUE
  /\ \E n \in 1..MaxBindings : \E v \in BindingVectors(n) :
       module = [CompilerNew EXCEPT !.bindings = v]
  /\ status = "source"
  /\ call_stack = <<>>
  /\ stack = <<>>
  /\ globals = <<>>
  /\ result = <<>>
  /\ if_entry = <<>>
  /\ lookup_name \in Names
  /\ lookup_index = -1

\* visit_identifier / visit_assignment calling get_binding_index
GetBindingIndex ==
  /\ lookup_name # ""
  /\ lookup_index = -1
  /\ lookup_index' = get_binding_index(module, lookup_name)
  /\ UNCHANGED <<input, overflow_checks, module, status, call_stack, stack, globals,
                 result, if_entry, lookup_name>>

LookupSpec == LookupInit /\ [][GetBindingIndex]_vars

\* Indexing on its own: the VM stands before ArrLoad with an array and an
\* index on the stack, or before ArrSlc with a sequence, a start and an end
\* (an Int or Nil).
MaxSeqLen == 4
Endpoints == (-(MaxSeqLen + 2))..(MaxSeqLen + 2)
Arrays == {ArrayObj([k \in 1..n |-> IntV(10 + k)]) : n \in 0..MaxSeqLen}

IndexingStacks ==
  {<< arr, IntV(idx) >> : arr \in Arrays, idx \in Endpoints}
  \cup {<< sq, IntV(start), end >> :
          sq \in Arrays \cup {StringObj("abc")}, start \in Endpoints,
          end \in {IntV(e) : e \in Endpoints} \cup {NilV}}

IndexingInit ==
  /\ input = 1
  /\ overflow_checks \in BOOLEAN
  /\ stack \in IndexingStacks
  /\ module = RawModule(<< IF Len(stack) = 2 THEN Op("ArrLoad") ELSE Op("ArrSlc"),
                           Op("Return") >>, << TRUE, TRUE >>, << >>)
  /\ status = "running"
  /\ call_stack = VMNew.call_stack
  /\ globals = <<>>
  /\ result = <<>>
  /\ if_entry = <<>>
  /\ lookup_name = ""
  /\ lookup_index = -1

IndexingSpec == IndexingInit /\ [][ExecArrLoad \/ ExecArrSlc]_vars

\* run is a loop that fetches and executes until it returns: a turn of the
\* loop that can be taken is taken
FairSpec == Spec /\ WF_vars(RunStep)

(***************************************************************************)
(* Properties                                                              *)
(***************************************************************************)
\* run has returned, or the process has aborted
Halted == status \notin {"source", "compile_failed", "compiled", "running"}

IntArray(ints) == ArrayObj([i \in 1..Len(ints) |-> IntV(ints[i])])

\* the value of the last top-level expression of the inputs that end in one,
\* by the language's evaluation rules
Expected ==
  [arith |-> IntV(7), ops |-> BoolV(FALSE), logic |-> StringObj("c"),
   indexing |-> OptionObj(<< IntV(5) >>), binding |-> IntV(1), assign_in_expr |-> IntV(3),
   if_expr |-> IntV(456), if_stmts |-> IntV(9),
   long_branch_false |-> IntV(9), long_branch_true |-> IntV(9),
   inc |-> IntV(2), outer_assign |-> IntV(3),
   two_args |-> IntArray(<< 7, 8, 4 >>),
   outer_assign_in_expr |-> IntArray(<< 7, 8, 9, 3, 3 >>),
   call_then_constant |-> IntArray(<< 7, 6 >>),
   call_in_if_stmt |-> IntArray(<< 7, 8, 5 >>)]

Running(chunk_name, ip) ==
  /\ status = "running"
  /\ CurrFrame(M).chunk_name = chunk_name
  /\ CurrFrame(M).ip = ip

\* C1: for every AST the compiler accepts whose last top-level node is an
\* expression, run returns Ok with the value of that expression
C1_RunReturnsLastExpression ==
  (Input.kind = "ast" /\ Input.name \in DOMAIN Expected /\ Halted)
    => (status = "done" /\ result = << Expected[Input.name] >>)

\* the immediates the compiler wrote after the opcode at (1-based) position i
EmittedImms(chunk, i) ==
  LET next_op == {j \in (i + 1)..Len(chunk.code) : chunk.isop[j]}
      stop == IF next_op = {} THEN Len(chunk.code) + 1
              ELSE CHOOSE j \in next_op : \A k \in next_op : j <= k
  IN stop - i - 1

\* the immediates the arm of run for the opcode reads with read_byte_expect
ConsumedImms(opname) ==
  IF opname \in {"Constant", "LStore", "LLoad", "Jump", "JumpIfF", "Invoke"} THEN 1 ELSE 0

\* C2: in every compiled chunk each opcode is followed by as many immediates as
\* run consumes for it and as num_expected_imms declares, and every byte run
\* decodes as an opcode was written as an opcode
C2_ImmediatesAgree ==
  (Input.kind = "ast" /\ status \notin {"source", "compile_failed"}) =>
    /\ \A name \in DOMAIN module.chunks :
         \A i \in 1..Len(module.chunks[name].code) :
           module.chunks[name].isop[i] =>
             LET opname == OpcodeFrom(module.chunks[name].code[i])
             IN /\ EmittedImms(module.chunks[name], i) = ConsumedImms(opname)
                /\ ConsumedImms(opname) = num_expected_imms(opname)
    /\ CanFetch => module.chunks[CurrFrame(M).chunk_name].isop[CurrFrame(M).ip + 1]

\* the slot an LStore instruction about to run addresses
StoreIndex ==
  CurrFrame(M).stack_offset +
    (IF Instr = "LStore" THEN Code[CurrFrame(M).ip + 2] ELSE Op(Instr) - Op("LStore0"))

StoreReady ==
  /\ CanFetch
  /\ Instr \in LStoreOps
  /\ Instr = "LStore" => CurrFrame(M).ip + 1 < Len(Code)
  /\ stack # <<>>
  /\ StoreIndex >= 0
  /\ StoreIndex <= Len(stack) - 1

\* C3: a local store pops the top value and writes it to slot N + stack_offset,
\* growing the stack by one when that slot is the length after the pop, and
\* changing nothing else; it does not fail
C3_StoreWritesOrGrows ==
  [][StoreReady =>
       /\ status' = "running"
       /\ stack' = [i \in 1..(IF StoreIndex = Len(stack) - 1 THEN Len(stack) ELSE Len(stack) - 1)
                      |-> IF i = StoreIndex + 1 THEN Top(stack) ELSE stack[i]]]_vars

\* C4: val a = 1 ; var b = 2 ; val c = b = a = 3 runs to its end with the
\* slots [3, 3, 3]; and an assignment used as an operand yields the assigned
\* value, so that 1 + (a = 2) is 3
C4_AssignmentValue ==
  /\ (Input.name = "assign_chain" /\ Halted) =>
       (status = "done" /\ stack = << IntV(3), IntV(3), IntV(3) >>)
  /\ (Input.name = "assign_in_expr" /\ Halted) =>
       (status = "done" /\ result = << IntV(3) >>)

\* C5: func inc(n: Int) { n + 1 } called with k returns to the caller with
\* k + 1 as the value of the call: inc(1) is 2, and the inc chunk invoked with
\* 3 on top of the stack gives 4
C5_IncYieldsSuccessor ==
  /\ (Input.name = "inc" /\ Halted) => (status = "done" /\ result = << IntV(2) >>)
  /\ (Input.name = "mod_inc" /\ Halted) => (status = "done" /\ result = << IntV(4) >>)

\* C6: after sub(x, y) called as sub(5, 3) has run its two parameter stores,
\* x's slot holds 5 and y's slot holds 3
C6_ParametersInOrder ==
  (Input.name = "two_args" /\ Running("sub", 2)) =>
    /\ load(M, 0).stack = Append(stack, IntV(5))
    /\ load(M, 1).stack = Append(stack, IntV(3))

\* C7: once abc has stored 3 to the top-level binding a (binding 0), the slot
\* main reads for a holds 3
C7_OuterBindingSameSlot ==
  (Input.name = "outer_assign_in_expr" /\ Running("abc", 2)) => stack[1] = IntV(3)

\* C8: every JumpIfF immediate is the distance to the else-branch (or to the
\* end without one), every Jump immediate the distance to the end of the
\* construct; and a construct whose condition is false runs none of its
\* then-branch
C8_JumpDistances ==
  (Input.kind = "ast" /\ status \notin {"source", "compile_failed"}) =>
    /\ \A k \in 1..Len(module.ifs) :
         LET if == module.ifs[k]
             code == module.chunks[if.chunk].code
         IN /\ code[if.then_start] = if.else_start - if.then_start
            /\ if.has_else => code[if.else_start] = if.end - if.else_start
    /\ (Input.name = "long_branch_false" /\ status = "running") =>
         ~(/\ CurrFrame(M).ip >= module.ifs[1].then_start
           /\ CurrFrame(M).ip < module.ifs[1].else_start)

\* C9: when control leaves an if compiled as a statement, the stack is as long
\* as it was when control entered it
C9_IfStatementNetZero ==
  \A k \in 1..Len(module.ifs) :
    (/\ module.ifs[k].is_stmt
     /\ if_entry # <<>>
     /\ if_entry[k] >= 0
     /\ Running(module.ifs[k].chunk, module.ifs[k].end))
      => Len(stack) = if_entry[k]

\* C10: a module with a branch longer than 255 bytes is not produced:
\* compilation fails instead
C10_LongBranchRejected ==
  (Input.kind = "ast" /\ status # "source") =>
    \A k \in 1..Len(module.ifs) :
      LET if == module.ifs[k]
      IN (if.else_start - if.then_start > 255 \/ if.end - if.else_start > 255)
           => status = "compile_failed"

\* C11: a run of a module compiled from a well-typed program ends with a
\* result or with StackEmpty, ConstIdxOutOfBounds or EndOfBytes, never by an
\* abort of the process
C11_OnlyThreeErrors ==
  (Input.kind = "ast" /\ Halted) =>
    status \in {"done", "StackEmpty", "ConstIdxOutOfBounds", "EndOfBytes"}

\* the current frame's chunk exists and its ip is at or past the end
AtOrPastEnd ==
  /\ status = "running"
  /\ CurrFrame(M).chunk_name \in DOMAIN module.chunks
  /\ CurrFrame(M).ip >= Len(module.chunks[CurrFrame(M).chunk_name].code)

\* C12: once a frame's ip is at or past the end of its chunk, run stops with
\* EndOfBytes
C12_EndOfBytesAtEnd ==
  [][AtOrPastEnd => status' = "EndOfBytes"]_vars

\* C13: Return in the root frame ends the run with the popped top of the
\* stack (or none); Return in any deeper frame pops that frame only
C13_ReturnRootOnly ==
  [][(CanFetch /\ Instr = "Return") =>
       IF Len(call_stack) = 1
       THEN /\ status' = "done"
            /\ result' = (IF stack = <<>> THEN <<>> ELSE << Top(stack) >>)
            /\ stack' = (IF stack = <<>> THEN <<>> ELSE Rest(stack))
       ELSE /\ status' = "running"
            /\ call_stack' = Rest(call_stack)
            /\ stack' = stack]_vars

InvokeReady ==
  /\ CanFetch
  /\ Instr = "Invoke"
  /\ CurrFrame(M).ip + 1 < Len(Code)
  /\ stack # <<>>
  /\ Top(stack).t = "StringObj"

\* C14: Invoke pops the name, reads the arity, pushes the frame
\* [name, ip 0, stack_offset = length - arity >= 0], and leaves the caller's
\* frame just past the immediate and the rest of the stack as it was
C14_InvokeFrame ==
  [][InvokeReady =>
       LET arity == Code[CurrFrame(M).ip + 2]
           depth == Len(call_stack)
       IN /\ status' = "running"
          /\ stack' = Rest(stack)
          /\ Len(stack) - 1 - arity >= 0
          /\ call_stack' =
               Append([call_stack EXCEPT ![depth].ip = @ + 2],
                      [ip |-> 0, chunk_name |-> Top(stack).s,
                       stack_offset |-> Len(stack) - 1 - arity])]_vars

\* no chunk of the module holds an opcode byte with this name
NoOpcode(opname) ==
  \A name \in DOMAIN module.chunks :
    \A i \in 1..Len(module.chunks[name].code) :
      module.chunks[name].isop[i] => module.chunks[name].code[i] # Op(opname)

\* the step executes an instruction other than Invoke and a frame-popping
\* Return
PlainStep ==
  /\ CanFetch
  /\ Instr # "Invoke"
  /\ ~(Instr = "Return" /\ CurrFrame(M).chunk_name # MAIN_CHUNK_NAME)

\* C15: the compiler emits no JumpB; every executed instruction other than
\* Invoke (and the Return of a callee) strictly increases the frame's ip or
\* stops the run; so a run that has started reaches its end or an Invoke
C15_TerminatesWithoutInvoke ==
  /\ []((Input.kind = "ast" /\ status \notin {"source", "compile_failed"}) => NoOpcode("JumpB"))
  /\ [][PlainStep =>
          \/ status' # "running"
          \/ /\ Len(call_stack') = Len(call_stack)
             /\ call_stack'[Len(call_stack)].chunk_name = CurrFrame(M).chunk_name
             /\ call_stack'[Len(call_stack)].ip > CurrFrame(M).ip]_vars
  /\ (status = "running") ~> (Halted \/ (CanFetch /\ Instr = "Invoke"))

\* the program whose condition is the literal true, with both jumps and no
\* call, has run its then-branch, taken the Jump over the else-branch and ended
C15_JumpTakenAndEnded ==
  /\ Input.name = "long_branch_true"
  /\ ~NoOpcode("Jump") /\ ~NoOpcode("JumpIfF") /\ NoOpcode("Invoke")
  /\ status = "done"

\* the length of main's code once the first i top-level nodes are compiled:
\* where the code of node i ends (0-based position of the byte after it)
TopEnd(ast, i) ==
  Len(CompileNodes(CompilerNew, SubSeq(ast, 1, i), 1).chunks[MAIN_CHUNK_NAME].code)

\* node i of k leaves a value that is not the program's result
IsNonFinalExpression(ast, i) ==
  /\ i < Len(ast)
  /\ ast[i].k \notin {"BindingDecl", "FunctionDecl", "IfStatement"}

\* the byte at 0-based position pos of main is the opcode Pop
PopAt(pos) ==
  /\ pos < Len(module.chunks[MAIN_CHUNK_NAME].code)
  /\ module.chunks[MAIN_CHUNK_NAME].isop[pos + 1]
  /\ module.chunks[MAIN_CHUNK_NAME].code[pos + 1] = Op("Pop")

\* the top-level nodes before node i that keep a slot of main: declarations
\* with a value, and function declarations
SlotsBefore(ast, i) ==
  Cardinality({j \in 1..(i - 1) :
                 \/ ast[j].k = "FunctionDecl"
                 \/ ast[j].k = "BindingDecl" /\ ast[j].expr # <<>>})

\* C16: Pop follows the code of top-level node i exactly when i < k and the
\* node is not a binding declaration, a function declaration or an
\* if-statement; when run is about to execute such a Pop only that node's
\* value lies above main's slots
C16_PopAfterNonFinalExpressions ==
  (Input.kind = "ast" /\ status \notin {"source", "compile_failed"}) =>
    \A i \in 1..Len(Input.ast) :
      /\ PopAt(TopEnd(Input.ast, i)) <=> IsNonFinalExpression(Input.ast, i)
      /\ (/\ IsNonFinalExpression(Input.ast, i)
          /\ Len(call_stack) = 1
          /\ Running(MAIN_CHUNK_NAME, TopEnd(Input.ast, i)))
           => Len(stack) = SlotsBefore(Input.ast, i) + 1

\* run is about to execute the Pop after a non-final top-level expression
C16_AtTopLevelPop ==
  /\ Input.kind = "ast"
  /\ \E i \in 1..Len(Input.ast) :
       /\ IsNonFinalExpression(Input.ast, i)
       /\ Len(call_stack) = 1
       /\ Running(MAIN_CHUNK_NAME, TopEnd(Input.ast, i))
       /\ CanFetch /\ Instr = "Pop"

\* the indices (0-based) of the descriptors named lookup_name
Matches == {i \in 0..(Len(module.bindings) - 1) : module.bindings[i + 1].name = lookup_name}

\* C17: for a name that occurs in the binding vector, get_binding_index
\* returns the greatest index whose descriptor has that name
C17_MostRecentBinding ==
  (lookup_index # -1 /\ Matches # {}) =>
    /\ lookup_index \in Matches
    /\ \A i \in Matches : i <= lookup_index

\* the lookup has returned index 0 for a name bound only there, below other
\* bindings
C17_OnlyMatchAtZero ==
  /\ Matches = {0}
  /\ Len(module.bindings) = MaxBindings
  /\ lookup_index = 0

\* C18: after a function declaration the binding vector is what it was
\* before the declaration followed by one descriptor, the function's name
C18_FunctionLeavesOneBinding ==
  (Input.kind = "ast" /\ status \notin {"source", "compile_failed"}) =>
    \A k \in 1..Len(module.fns) :
      module.fns[k].after = Append(module.fns[k].before,
                                   [name |-> module.fns[k].name,
                                    scope_depth |-> module.fns[k].scope_depth])

\* C19: every chunk's num_bindings is the number of descriptors appended
\* while it was the current chunk (parameters, body declarations and the
\* names of the functions declared in it)
C19_NumBindingsCountsAppends ==
  (Input.kind = "ast" /\ status \notin {"source", "compile_failed"}) =>
    \A name \in DOMAIN module.chunks :
      module.chunks[name].num_bindings = module.appended[name]

\* C20: a declaration without initializer emits no bytecode and reserves its
\* slot: the next binding gets index 1, its store succeeds and the reserved
\* slot reads as Nil
C20_UnsetSlotReserved ==
  (Input.name = "unset" /\ status \notin {"source", "compile_failed"}) =>
    /\ Len(module.bindings) = 2
    /\ module.chunks[MAIN_CHUNK_NAME].num_bindings = 2
    /\ module.chunks[MAIN_CHUNK_NAME].code =
         << Op("IConst1"), Op("LStore1"), Op("LLoad0"), Op("Return") >>
    /\ status # "panic"
    /\ Halted => (status = "done" /\ result = << NilV >>)

\* the program is one integer literal
IsIntLiteralProgram ==
  /\ Input.kind = "ast"
  /\ Len(Input.ast) = 1
  /\ Input.ast[1].k = "Literal"
  /\ Input.ast[1].lit = "Int"

\* the VM value is the literal's value: an Int of the model carries the low
\* 32 bits and stands for the literal hi * 2^32 + lo only when hi = 0
IsIntOfLiteral(value, node) ==
  value = IntV(node.v) /\ node.hi = 0

\* the module and the run's outcome for the one-literal program `node`
IntLiteralCompiled(node, code) ==
  /\ IF node.hi = 0 /\ node.v <= 4
     THEN /\ code = << Op("IConst0") + node.v, Op("Return") >>
          /\ module.constants = << >>
     ELSE /\ code = << Op("Constant"), 0, Op("Return") >>
          /\ Len(module.constants) = 1
          /\ IsIntOfLiteral(module.constants[1], node)
  /\ Halted => (status = "done" /\ Len(result) = 1 /\ IsIntOfLiteral(result[1], node))

\* C21: the code of an integer literal n >= 0 is IConstn with no constant for
\* n <= 4 and otherwise Constant idx with constants[idx] = Int(n), and
\* running it yields Int(n), also for n >= 2^32
C21_IntLiteralPushed ==
  (IsIntLiteralProgram /\ status \notin {"source", "compile_failed"}) =>
    IntLiteralCompiled(Input.ast[1], module.chunks[MAIN_CHUNK_NAME].code)

\* the names of the opcodes of a chunk, immediates left out
RECURSIVE OpcodesFrom(_, _)
OpcodesFrom(chunk, i) ==
  IF i > Len(chunk.code) THEN << >>
  ELSE (IF chunk.isop[i] THEN << OpcodeFrom(chunk.code[i]) >> ELSE << >>)
       \o OpcodesFrom(chunk, i + 1)

\* the opcodes of the code of one node compiled on its own
CodeOf(node) ==
  OpcodesFrom(CompileNodes(CompilerNew, << node >>, 1).chunks[MAIN_CHUNK_NAME], 1)

\* the conversion the claim places after an operand
Conversion(node_type, operand_type) ==
  IF node_type = "Float" /\ operand_type = "Int" THEN << "I2F" >>
  ELSE IF node_type = "Int" /\ operand_type = "Float" THEN << "F2I" >>
  ELSE << >>

ArithmeticOpcode(op, typ) ==
  (IF typ = "Int" THEN "I" ELSE "F") \o op

IsArithmeticProgram ==
  /\ Input.kind = "ast"
  /\ Input.name = "binary"

\* the emitted opcodes of the arithmetic node, and the operands its opcode
\* meets at run time
ArithmeticCompiled(node, main) ==
  /\ OpcodesFrom(main, 1) =
       CodeOf(node.left) \o Conversion(node.typ, node.left.typ)
       \o CodeOf(node.right) \o Conversion(node.typ, node.right.typ)
       \o << ArithmeticOpcode(node.op, node.typ), "Return" >>
  /\ (CanFetch /\ Instr \in IntOps \cup FloatOps) =>
       /\ Instr = ArithmeticOpcode(node.op, node.typ)
       /\ Len(stack) = 2
       /\ stack[1].t = node.typ
       /\ stack[2].t = node.typ

IntArith(opname, a, b) ==
  CASE opname = "IAdd" -> a + b
    [] opname = "ISub" -> a - b
    [] opname = "IMul" -> a * b
    [] opname = "IDiv" -> Sign(a) * Sign(b) * (Abs(a) \div Abs(b))
    [] opname = "IMod" -> Sign(a) * (Abs(a) % Abs(b))

\* an integer opcode is fetched with two Ints on top, b above a
IntOpReady ==
  /\ CanFetch
  /\ Instr \in {"IAdd", "ISub", "IMul", "IDiv", "IMod"}
  /\ Len(stack) >= 2
  /\ stack[Len(stack)].t = "Int" /\ stack[Len(stack) - 1].t = "Int"
  /\ Instr \in {"IDiv", "IMod"} => stack[Len(stack)].i # 0

\* C23: IAdd, ISub, IMul, IDiv and IMod each pop b then a and push
\* Int(a op b), a being the value pushed first; the rest of the stack stays
C23_IntOpcodes ==
  [][IntOpReady =>
       /\ status' = "running"
       /\ stack' = Append(SubSeq(stack, 1, Len(stack) - 2),
                          IntV(IntArith(Instr, stack[Len(stack) - 1].i, stack[Len(stack)].i)))]_vars

IsNaN(v) == v.t = "Float" /\ v.d = 0 /\ v.n = 0

\* the order relation an opcode names, on integers
IntCompare(opname, a, b) ==
  CASE opname = "LT"  -> a < b
    [] opname = "LTE" -> a <= b
    [] opname = "GT"  -> a > b
    [] opname = "GTE" -> a >= b
    [] opname = "Eq"  -> a = b
    [] opname = "Neq" -> a # b

\* a comparison opcode is fetched with b on top of a
CompareReady ==
  /\ CanFetch
  /\ Instr \in CompOps
  /\ Len(stack) >= 2

\* what the comparison of a (below) and b (top) pushes
CompareStep(a, b) ==
  /\ status' = "running"
  /\ Len(stack') = Len(stack) - 1
  /\ SubSeq(stack', 1, Len(stack) - 2) = SubSeq(stack, 1, Len(stack) - 2)
  /\ stack'[Len(stack')].t = "Bool"
  /\ (a.t = "Int" /\ b.t = "Int") => stack'[Len(stack')].b = IntCompare(Instr, a.i, b.i)
  /\ (IsNaN(a) \/ IsNaN(b)) => stack'[Len(stack')].b = FALSE

\* C24: each of LT, LTE, GT, GTE, Eq, Neq pops b then a and pushes
\* Bool(a op b), for Ints by the integer order; for incomparable operands
\* (a NaN) every opcode, Neq included, pushes false
C24_Comparisons ==
  [][CompareReady => CompareStep(stack[Len(stack) - 1], stack[Len(stack)])]_vars

\* NaN Neq NaN has pushed false
C24_NaNNeqIsFalse ==
  /\ Input.name = "mod_compare"
  /\ Running(MAIN_CHUNK_NAME, 5)
  /\ stack = << BoolV(FALSE) >>

\* ArrLoad is fetched with an Int index on top of an array
ArrLoadReady ==
  /\ CanFetch
  /\ Instr = "ArrLoad"
  /\ Len(stack) >= 2
  /\ stack[Len(stack)].t = "Int"
  /\ stack[Len(stack) - 1].t = "ArrayObj"

\* the element an index selects: counted from the end when negative, none
\* outside -n .. n - 1
ElementAt(items, i) ==
  IF 0 <= i /\ i < Len(items) THEN << items[i + 1] >>
  ELSE IF -Len(items) <= i /\ i < 0 THEN << items[i + Len(items) + 1] >>
  ELSE << >>

\* C25: ArrLoad pops the index and the array and pushes Some(arr[i]) for
\* 0 <= i < n, Some(arr[i + n]) for -n <= i < 0 and None otherwise, and
\* fails for no Int index
C25_ArrLoad ==
  [][ArrLoadReady =>
       /\ status' = "running"
       /\ stack' = Append(SubSeq(stack, 1, Len(stack) - 2),
                          OptionObj(ElementAt(stack[Len(stack) - 1].a, stack[Len(stack)].i)))]_vars

\* ArrLoad has pushed the first element of the longest array; the index was
\* 0 or -n
C25_FirstElementLoaded ==
  /\ status = "running"
  /\ CurrFrame(M).ip = 1
  /\ Code[1] = Op("ArrLoad")
  /\ stack = << OptionObj(<< IntV(11) >>) >>

\* ArrSlc is fetched with end (Int or Nil) on top of start (Int) on top of a
\* sequence
ArrSlcReady ==
  /\ CanFetch
  /\ Instr = "ArrSlc"
  /\ Len(stack) >= 3
  /\ stack[Len(stack)].t \in {"Int", "Nil"}
  /\ stack[Len(stack) - 1].t = "Int"
  /\ stack[Len(stack) - 2].t \in {"ArrayObj", "StringObj"}

\* an endpoint offset by n when negative, then clamped into 0 .. n
Clamped(n, e) ==
  LET off == IF e < 0 THEN e + n ELSE e
  IN IF off < 0 THEN 0 ELSE IF off > n THEN n ELSE off

\* the elements from the clamped start to the clamped end
Slice(items, start, end) ==
  SubSeq(items, Clamped(Len(items), start) + 1,
         Clamped(Len(items), IF end.t = "Nil" THEN Len(items) ELSE end.i))

ItemsOf(sq) == IF sq.t = "StringObj" THEN sq.s ELSE sq.a

\* C26: ArrSlc pops end, start and the sequence and pushes the sequence of
\* the elements from start' to end', the endpoints offset by n when negative
\* and clamped into [0, n]; empty when end' <= start'; it aborts for no Int
\* endpoints
C26_ArrSlc ==
  [][ArrSlcReady =>
       /\ status' = "running"
       /\ Len(stack') = Len(stack) - 2
       /\ stack'[Len(stack')].t = stack[Len(stack) - 2].t
       /\ ItemsOf(stack'[Len(stack')]) =
            Slice(ItemsOf(stack[Len(stack) - 2]), stack[Len(stack) - 1].i, stack[Len(stack)])]_vars

\* the opcode bytes of one chunk of the compiled module
ChunkCode(opnames) == [i \in 1..Len(opnames) |-> Op(opnames[i])]

IncCompiled == Input.name = "inc" /\ status \notin {"source", "compile_failed"}

\* C27 (as stated): the two-line program func inc(n: Int) { n + 1 } ; inc(1), with
\* no other declaration, compiles to an inc chunk [LStore1, LLoad1, IConst1, IAdd,
\* Return]: the parameter lives in local slot 1
C27_IncChunkUsesSlotOne ==
  IncCompiled =>
    module.chunks["inc"].code = ChunkCode(<< "LStore1", "LLoad1", "IConst1", "IAdd", "Return" >>)

\* C27 (amended): with no declaration before the function the parameter is the
\* first binding, so the inc chunk is [LStore0, LLoad0, IConst1, IAdd, Return]
\* and it owns exactly one binding
C27_IncChunkUsesSlotZero ==
  IncCompiled =>
    /\ "inc" \in DOMAIN module.chunks
    /\ module.chunks["inc"].code =
         ChunkCode(<< "LStore0", "LLoad0", "IConst1", "IAdd", "Return" >>)
    /\ module.chunks["inc"].num_bindings = 1

\* C27 witness: the two-line program has been compiled and holds an inc chunk
C27_IncChunkCompiled ==
  /\ IncCompiled
  /\ status = "compiled"
  /\ Len(module.chunks["inc"].code) = 5

Main == module.chunks[MAIN_CHUNK_NAME]

AstCompiled == Input.kind = "ast" /\ status \notin {"source", "compile_failed"}

\* C28: main of every compiled module ends with exactly one Return, written on
\* the line after the line of the last instruction emitted before it, also when
\* the last top-level node spans several lines; the empty module is the single
\* Return on line 1 with no constants and no bindings
C28_TrailingReturnLine ==
  AstCompiled =>
    LET n == Len(Main.code)
    IN /\ n >= 1
       /\ Main.isop[n] /\ Main.code[n] = Op("Return")
       /\ \A i \in 1..(n - 1) : Main.isop[i] => Main.code[i] # Op("Return")
       /\ n > 1 => Main.written[n] = Main.written[n - 1] + 1
       /\ Input.ast = << >> =>
            /\ Main.code = << Op("Return") >>
            /\ Main.lines = << 1 >>
            /\ module.constants = << >>
            /\ Main.num_bindings = 0

IsLogicProgram == Input.kind = "ast" /\ Input.name = "logic_op"

\* the state of the compiler before the logical node, after its left operand
\* and after its right operand
BeforeLogic(ast) == CompileNodes(CompilerNew, SubSeq(ast, 1, Len(ast) - 1), 1)
AfterLeft(ast) == Visit(BeforeLogic(ast), ast[Len(ast)].left)
AfterRight(ast) == Visit(AfterLeft(ast), ast[Len(ast)].right)
MainLen(cs) == Len(cs.chunks[MAIN_CHUNK_NAME].code)

\* code(a), code(b), And/Or and nothing else, with no jump anywhere
LogicCompiled(ast, main) ==
  /\ OpcodesFrom(main, 1) =
       OpcodesFrom(AfterRight(ast).chunks[MAIN_CHUNK_NAME], 1)
       \o << ast[Len(ast)].op, "Return" >>
  /\ MainLen(AfterLeft(ast)) > MainLen(BeforeLogic(ast))
  /\ MainLen(AfterRight(ast)) > MainLen(AfterLeft(ast))
  /\ NoOpcode("Jump") /\ NoOpcode("JumpIfF") /\ NoOpcode("JumpB")

\* the opcode is fetched with the values of both operands on the stack
AtLogicOpcode(ast) ==
  /\ Running(MAIN_CHUNK_NAME, MainLen(AfterRight(ast)))
  /\ Instr = ast[Len(ast)].op
  /\ Len(stack) = 2

LogicStep(a, b) ==
  /\ status' = "running"
  /\ stack' = Append(SubSeq(stack, 1, Len(stack) - 2),
                     BoolV(IF Instr = "And" THEN a.b /\ b.b ELSE a.b \/ b.b))

\* C29: a && b and a || b compile to code(a), code(b), And/Or with no jump;
\* whatever a is, the run goes through code(b), assignments included,
\* instruction by instruction until the opcode is fetched, and the opcode pops
\* both Bools and pushes their conjunction or disjunction
C29_NoShortCircuit ==
  /\ []((IsLogicProgram /\ status \notin {"source", "compile_failed"}) =>
          LogicCompiled(Input.ast, Main))
  /\ [][(IsLogicProgram /\ CanFetch /\ Instr # "Return") =>
          /\ status' = "running"
          /\ call_stack'[1].ip = CurrFrame(M).ip + 1 + num_expected_imms(Instr)]_vars
  /\ [][(/\ CanFetch /\ Instr \in {"And", "Or"} /\ Len(stack) >= 2
          /\ stack[Len(stack) - 1].t = "Bool" /\ stack[Len(stack)].t = "Bool") =>
          LogicStep(stack[Len(stack) - 1], stack[Len(stack)])]_vars
  /\ (IsLogicProgram /\ status = "running") ~>
       (IsLogicProgram /\ (AtLogicOpcode(Input.ast) \/ status = "done"))

\* C29 witness: false && (x = true) is at its And opcode after the assignment
\* ran: the stored value is on the stack although the left operand was false
C29_AssignmentRanAfterFalse ==
  /\ IsLogicProgram
  /\ Len(Input.ast) = 2
  /\ Input.ast[2].op = "And" /\ ~Input.ast[2].left.v
  /\ AtLogicOpcode(Input.ast)
  /\ stack[2] = BoolV(TRUE)

\* globals with one key set and every other key as it was
GlobalsWith(key, value) ==
  [k \in DOMAIN globals \cup {key} |-> IF k = key THEN value ELSE globals[k]]

GLoadStep ==
  (CanFetch /\ Instr = "GLoad" /\ Len(stack) >= 1 /\ stack[Len(stack)].t = "StringObj") =>
    /\ status' = "running"
    /\ globals' = globals
    /\ stack' = Append(SubSeq(stack, 1, Len(stack) - 1),
                       IF stack[Len(stack)].s \in DOMAIN globals
                       THEN globals[stack[Len(stack)].s] ELSE NilV)

OnlyGStoreWrites ==
  (CanFetch /\ Instr # "GStore") => globals' = globals

\* C30 (as stated): GStore pops the value first (top of stack) and then the
\* string key beneath it and sets globals[key] = value, with every other global
\* and the rest of the stack unchanged; GLoad pushes the stored value of its
\* key, or Nil for a key never stored
C30_GStoreValueOnTop ==
  /\ [][(/\ CanFetch /\ Instr = "GStore" /\ Len(stack) >= 2
          /\ stack[Len(stack) - 1].t = "StringObj") =>
          /\ status' = "running"
          /\ globals' = GlobalsWith(stack[Len(stack) - 1].s, stack[Len(stack)])
          /\ stack' = SubSeq(stack, 1, Len(stack) - 2)]_vars
  /\ [][GLoadStep]_vars
  /\ [][OnlyGStoreWrites]_vars

\* C30 (amended): GStore pops the string key first (top of stack) and then
\* the value beneath it
C30_GStoreKeyOnTop ==
  /\ [][(/\ CanFetch /\ Instr = "GStore" /\ Len(stack) >= 2
          /\ stack[Len(stack)].t = "StringObj") =>
          /\ status' = "running"
          /\ globals' = GlobalsWith(stack[Len(stack)].s, stack[Len(stack) - 1])
          /\ stack' = SubSeq(stack, 1, Len(stack) - 2)]_vars
  /\ [][GLoadStep]_vars
  /\ [][OnlyGStoreWrites]_vars

\* C30 witness: after two stores, "h" has been loaded as the string stored
\* under it while "g" keeps its own value, and the key "k", never stored, is
\* about to be loaded
C30_TwoStoredOneUnknown ==
  /\ Input.name = "mod_globals_two"
  /\ CanFetch /\ Instr = "GLoad"
  /\ DOMAIN globals = {"g", "h"}
  /\ globals["g"] = IntV(1) /\ globals["h"] = StringObj("g")
  /\ stack = << StringObj("g"), StringObj("k") >>

\* the slot a name resolves to in a binding vector
SlotOf(bindings, name) == ScanBindings(bindings, name, Len(bindings) - 1)

\* C31: a binding declared inside an if- or else-block is not visible after
\* the block: every name bound before the if construct resolves to the same
\* slot after it as before it, so code after the block loads the outer slot
\* and never one that is written only when the branch is taken
C31_BlockBindingsNotVisibleAfter ==
  (Input.kind = "ast" /\ status \notin {"source", "compile_failed"}) =>
    /\ \A i \in 1..Len(module.ifs) :
         \A j \in 1..Len(module.ifs[i].before) :
           SlotOf(module.ifs[i].after, module.ifs[i].before[j].name)
             = SlotOf(module.ifs[i].before, module.ifs[i].before[j].name)
    /\ Input.name = "if_shadow_then_use" =>
         Main.code[Len(Main.code) - 1] = Op("LLoad0")

\* the states of a constructed VM: running, finished or failed
VMState == status \notin {"source", "compile_failed", "compiled"}

\* C32: in every VM state the call stack holds at least one frame and its
\* bottom frame is the root frame of main with stack_offset 0; Invoke never
\* shortens the call stack and no step removes or changes the root frame's
\* chunk and offset
C32_RootFrameStays ==
  /\ [](VMState =>
          /\ Len(call_stack) >= 1
          /\ call_stack[1].chunk_name = MAIN_CHUNK_NAME
          /\ call_stack[1].stack_offset = 0)
  /\ [][(CanFetch /\ Instr = "Invoke") =>
          /\ Len(call_stack') \in {Len(call_stack), Len(call_stack) + 1}
          /\ \A i \in 1..Len(call_stack) :
               /\ call_stack'[i].chunk_name = call_stack[i].chunk_name
               /\ call_stack'[i].stack_offset = call_stack[i].stack_offset]_vars
  /\ [][VMState => Len(call_stack') >= 1]_vars

\* C32 witness: a run that invoked a function, returned from it into main and
\* finished, with only the root frame left
C32_ReturnedToRootAndDone ==
  /\ Input.name = "call_then_constant"
  /\ status = "done"
  /\ "one" \in DOMAIN module.chunks
  /\ Len(call_stack) = 1
  /\ call_stack[1].chunk_name = MAIN_CHUNK_NAME
  /\ call_stack[1].stack_offset = 0

====
